---- MODULE Spec2Model ----
(***************************************************************************)
(* A model of the credential and token core of spsyncpro-api:              *)
(*   - the password hasher     (internal/account/service.go)               *)
(*   - the token issuer/validator (internal/account/service.go)            *)
(*   - the secret encryptor    (pkg/utils, AES-GCM + base64)               *)
(*   - the organization upsert path that stores tenant client secrets      *)
(*   - the account handlers around them (internal/account/handler.go)      *)
(*   - the routes with their responses, the middleware before the          *)
(*     protected ones, and registration served concurrently                *)
(*                                                                         *)
(* Go strings and byte slices are sequences of byte values 0..255.         *)
(* The cryptographic primitives of the libraries (Argon2id, AES-GCM,       *)
(* HMAC-SHA-256) are replaced by deterministic stand-ins that keep what    *)
(* the code relies on: the same inputs give the same output, and, on the   *)
(* inputs the model draws, different inputs give different outputs.        *)
(***************************************************************************)
EXTENDS Integers, Sequences, FiniteSets, TLC

VARIABLES
    hp,        \* the last HashPassword call: its arguments and what it returned
    cp,        \* the last ComparePassword call on the hash held in hp
    now,       \* the wall clock, in ticks of 1/TicksPerSecond second
    jwtSecret, \* viper's JWT_SECRET
    tok,       \* the token a client holds
    tv,        \* the last validation of the token held in tok
    enc,       \* the Encryptor instances: the key each one holds
    stored,    \* the sealed secret at rest, as the last Encrypt returned it
    dec,       \* the last Decrypt of the sealed secret at rest
    orgKey,    \* viper's ENCRYPTION_KEY, held by the organization service's Encryptor
    orgs,      \* the organizations table: the row of ID i is orgs[i]
    orgCall,   \* the last request to an organization handler and its outcome
    accounts,  \* the accounts table: the password column of each account's row
    activity,  \* the account_activities table: its rows in the order created
    earlier,   \* what earlier calls returned, as their caller kept it; for
               \* the routes, the password last stored for each account
    emails,    \* the accounts table: the email column of each account's row
    reqs       \* the requests to the account routes being served: where the
               \* handler of each stands and the responses written to it

hashVars == <<hp, cp>>
tokenVars == <<now, jwtSecret, tok, tv>>
cryptoVars == <<enc, stored, dec>>
orgVars == <<orgKey, orgs, orgCall>>
accountVars == <<accounts, activity>>
routeVars == <<emails, reqs>>
vars == <<hp, cp, now, jwtSecret, tok, tv, enc, stored, dec,
          orgKey, orgs, orgCall, accounts, activity, earlier, emails, reqs>>

None == [none |-> TRUE]

\* The Encryptor instances: the one that seals, and a second one, made
\* after it, that only opens.
Instances == {"e1", "e2"}
Sealer == "e1"

(***************************************************************************)
(* Bounds of the model.                                                    *)
(***************************************************************************)
\* passwords are byte strings of at most this length
MaxPwLen == 2
\* the random source yields salts 0..MaxSaltSeed
MaxSaltSeed == 2
\* account IDs are 1..MaxAccountID
MaxAccountID == 2
\* the clock's resolution below one second
TicksPerSecond == 2
\* the clock stands at most this many ticks from a day's start
MaxOffset == 2
\* the 32-byte keys are those of seeds 1..MaxKeySeed
MaxKeySeed == 1
\* the random source yields nonces 0..MaxNonceSeed
MaxNonceSeed == 1
\* plaintexts are byte strings of at most this length
MaxPlainLen == 2
\* at most this many organization rows are ever created
MaxOrgs == 2
\* at most this many account_activities rows are ever created
MaxActivity == 2
\* at most this many results of earlier calls are kept beside the last one
MaxEarlier == 2
\* the keys handed to NewEncryptor are at most this long
MaxKeyLen == 33

(***************************************************************************)
(* Byte strings.                                                           *)
(***************************************************************************)
Byte == 0..255

\* "$": the field separator of the encoded hash
Dollar == 36
\* ",": the separator of the parameter field
Comma == 44
\* "=": the padding character of base64.StdEncoding
PadChar == 61
\* "\n" and "\r", which the base64 decoder skips
NewLine == 10
CarriageReturn == 13
\* "argon2id"
StrArgon2id == <<97, 114, 103, 111, 110, 50, 105, 100>>
\* "v=19"
StrV19 == <<118, 61, 49, 57>>
\* "m=", "t=", "p="
StrMEq == <<109, 61>>
StrTEq == <<116, 61>>
StrPEq == <<112, 61>>

\* The error values of the account package and the domain package.
Nil == "nil"
ErrPasswordEmpty == "password cannot be empty"
ErrInvalidHashFormat == "invalid hash format"
ErrFailedToGenerateSalt == "failed to generate salt"

\* The first position of byte c in s, or 0: strings.IndexByte(s, c) + 1.
IndexOf(s, c) ==
    LET at == {i \in 1..Len(s) : s[i] = c}
    IN  IF at = {} THEN 0 ELSE CHOOSE i \in at : \A j \in at : i <= j

RECURSIVE Split(_, _)
\* strings.Split(s, sep) for a one-byte separator.
Split(s, sep) ==
    LET k == IndexOf(s, sep)
    IN  IF k = 0 THEN <<s>>
        ELSE <<SubSeq(s, 1, k - 1)>> \o Split(SubSeq(s, k + 1, Len(s)), sep)

\* strings.TrimPrefix(s, prefix)
TrimPrefix(s, prefix) ==
    IF Len(s) >= Len(prefix) /\ SubSeq(s, 1, Len(prefix)) = prefix
    THEN SubSeq(s, Len(prefix) + 1, Len(s))
    ELSE s

RECURSIVE FormatUint(_)
\* strconv.FormatUint(n, 10), also fmt's %d of an unsigned value.
FormatUint(n) ==
    IF n < 10 THEN <<48 + n>>
    ELSE FormatUint(n \div 10) \o <<48 + (n % 10)>>

IsDigit(c) == c >= 48 /\ c <= 57

RECURSIVE StripZeros(_)
\* The decimal digits of a value without leading zeros ("0" for zero).
StripZeros(s) ==
    IF Len(s) > 1 /\ s[1] = 48 THEN StripZeros(Tail(s)) ELSE s

RECURSIVE DigitsLeq(_, _)
\* a <= b for two digit strings of the same length.
DigitsLeq(a, b) ==
    IF Len(a) = 0 THEN TRUE
    ELSE IF a[1] < b[1] THEN TRUE
    ELSE IF a[1] > b[1] THEN FALSE
    ELSE DigitsLeq(Tail(a), Tail(b))

\* "4294967295", the largest value of bitSize 32
StrMaxUint32 == <<52, 50, 57, 52, 57, 54, 55, 50, 57, 53>>

\* "18446744073709551615", the largest value of bitSize 64
StrMaxUint64 == <<49, 56, 52, 52, 54, 55, 52, 52, 48, 55,
                  51, 55, 48, 57, 53, 53, 49, 54, 49, 53>>

ErrSyntax == "invalid syntax"
ErrRange == "value out of range"

\* A faulty variant: the empty string is taken as zero.
ParseUintEmptyIsZero(s, max) ==
    IF Len(s) = 0 THEN [ok |-> TRUE, val |-> <<48>>, err |-> Nil]
    ELSE IF \E i \in 1..Len(s) : ~IsDigit(s[i])
    THEN [ok |-> FALSE, val |-> <<>>, err |-> ErrSyntax]
    ELSE LET d == StripZeros(s)
         IN  IF Len(d) < Len(max) \/ (Len(d) = Len(max) /\ DigitsLeq(d, max))
             THEN [ok |-> TRUE, val |-> d, err |-> Nil]
             ELSE [ok |-> FALSE, val |-> <<>>, err |-> ErrRange]

\* strconv.ParseUint(s, 10, bitSize), with max the decimal digits of the
\* largest value of bitSize. The value is kept as its decimal digits without
\* leading zeros, so that no value of the range is cut.
ParseUint(s, max) ==
    IF Len(s) = 0 \/ \E i \in 1..Len(s) : ~IsDigit(s[i])
    THEN [ok |-> FALSE, val |-> <<>>, err |-> ErrSyntax]
    ELSE LET d == StripZeros(s)
         IN  IF Len(d) < Len(max) \/ (Len(d) = Len(max) /\ DigitsLeq(d, max))
             THEN [ok |-> TRUE, val |-> d, err |-> Nil]
             ELSE [ok |-> FALSE, val |-> <<>>, err |-> ErrRange]

ParseUint32(s) == ParseUint(s, StrMaxUint32)
ParseUint64(s) == ParseUint(s, StrMaxUint64)

RECURSIVE DigitsToNat(_, _)
\* The value of a digit string.
DigitsToNat(d, acc) ==
    IF Len(d) = 0 THEN acc
    ELSE DigitsToNat(Tail(d), acc * 10 + (d[1] - 48))

RECURSIVE DigitsMod256(_, _)
\* uint8(v) of a value given by its decimal digits: v mod 256.
DigitsMod256(d, acc) ==
    IF Len(d) = 0 THEN acc
    ELSE DigitsMod256(Tail(d), (acc * 10 + (d[1] - 48)) % 256)

Uint8(d) == DigitsMod256(d, 0)

(***************************************************************************)
(* encoding/base64: the standard alphabet, with and without padding.       *)
(***************************************************************************)
\* The character of a 6-bit value: A-Z, a-z, 0-9, +, /
B64Char(v) ==
    IF v < 26 THEN 65 + v
    ELSE IF v < 52 THEN 97 + (v - 26)
    ELSE IF v < 62 THEN 48 + (v - 52)
    ELSE IF v = 62 THEN 43
    ELSE 47

\* The 6-bit value of a character, or -1 when it is not of the alphabet.
B64Val(c) ==
    IF c >= 65 /\ c <= 90 THEN c - 65
    ELSE IF c >= 97 /\ c <= 122 THEN c - 97 + 26
    ELSE IF c >= 48 /\ c <= 57 THEN c - 48 + 52
    ELSE IF c = 43 THEN 62
    ELSE IF c = 47 THEN 63
    ELSE -1

\* Byte i of b, and 0 beyond its end.
ByteAt(b, i) == IF i <= Len(b) THEN b[i] ELSE 0

\* Character r (0..3) of the group of four that encodes the three bytes
\* from b[i] on.
B64GroupChar(b, i, r) ==
    IF r = 0 THEN B64Char(b[i] \div 4)
    ELSE IF r = 1 THEN B64Char((b[i] % 4) * 16 + (ByteAt(b, i + 1) \div 16))
    ELSE IF r = 2
    THEN B64Char((ByteAt(b, i + 1) % 16) * 4 + (ByteAt(b, i + 2) \div 64))
    ELSE B64Char(ByteAt(b, i + 2) % 64)

\* Encoding.EncodeToString: three bytes give four characters, a final group
\* of one or two bytes gives two or three, filled with "=" when pad is set.
B64Encode(b, pad) ==
    LET n == Len(b)
        full == 4 * (n \div 3)
        rest == IF n % 3 = 0 THEN 0 ELSE (n % 3) + 1
        chars == [p \in 1..(full + rest) |->
                     B64GroupChar(b, 3 * ((p - 1) \div 4) + 1, (p - 1) % 4)]
    IN  IF pad /\ rest > 0
        THEN chars \o [p \in 1..(4 - rest) |-> PadChar]
        ELSE chars

RawStdEncode(b) == B64Encode(b, FALSE)
StdEncode(b) == B64Encode(b, TRUE)

\* The decoder ignores "\r" and "\n" wherever they stand.
DropNewlines(s) ==
    SelectSeq(s, LAMBDA c : c # NewLine /\ c # CarriageReturn)

\* Byte r (0..2) of the three bytes that the group of four characters from
\* s[i] on decodes to.
B64GroupByte(s, i, r) ==
    IF r = 0 THEN B64Val(s[i]) * 4 + (B64Val(s[i + 1]) \div 16)
    ELSE IF r = 1
    THEN (B64Val(s[i + 1]) % 16) * 16 + (B64Val(s[i + 2]) \div 4)
    ELSE (B64Val(s[i + 2]) % 4) * 64 + B64Val(s[i + 3])

\* The bytes of the characters of s, all of them of the alphabet: four
\* characters give three bytes, a final group of two or three gives one or
\* two. The decoder is not strict: the unused low bits of the last
\* character of a short final group are dropped whatever they are.
B64Decode(s) ==
    LET n == Len(s)
        count == 3 * (n \div 4) + (IF n % 4 = 0 THEN 0 ELSE (n % 4) - 1)
    IN  [k \in 1..count |->
            B64GroupByte(s, 4 * ((k - 1) \div 3) + 1, (k - 1) % 3)]

\* base64.StdEncoding.DecodeString
StdDecode(str) ==
    LET s == DropNewlines(str)
        k == IndexOf(s, PadChar)
        data == IF k = 0 THEN s ELSE SubSeq(s, 1, k - 1)
        padOk ==
            IF k = 0 THEN Len(s) % 4 = 0
            ELSE IF (k - 1) % 4 = 2 THEN Len(s) = k + 1 /\ s[k + 1] = PadChar
            ELSE IF (k - 1) % 4 = 3 THEN Len(s) = k
            ELSE FALSE
    IN  IF (\E i \in 1..Len(data) : B64Val(data[i]) < 0) \/ ~padOk
        THEN [ok |-> FALSE, val |-> <<>>]
        ELSE [ok |-> TRUE, val |-> B64Decode(data)]

\* A faulty variant: the hash fields decoded with the padded encoding.
RawStdDecodePadded(str) == StdDecode(str)

\* base64.RawStdEncoding.DecodeString
RawStdDecode(str) ==
    LET s == DropNewlines(str)
    IN  IF (\E i \in 1..Len(s) : B64Val(s[i]) < 0) \/ Len(s) % 4 = 1
        THEN [ok |-> FALSE, val |-> <<>>]
        ELSE [ok |-> TRUE, val |-> B64Decode(s)]

(***************************************************************************)
(* A stand-in for the hash functions inside the libraries: every output    *)
(* byte is a sum of all input bytes, each with an odd weight 2 * i * j + 1 *)
(* of its own (i the place of the input byte, j that of the output byte).  *)
(***************************************************************************)
RECURSIVE Sum(_, _, _)
\* The sum of bs[lo..hi].
Sum(bs, lo, hi) ==
    IF lo > hi THEN 0
    ELSE IF lo = hi THEN bs[lo]
    ELSE Sum(bs, lo, (lo + hi) \div 2) + Sum(bs, ((lo + hi) \div 2) + 1, hi)

RECURSIVE PosSum(_, _, _)
\* The sum of i * bs[i] over lo..hi.
PosSum(bs, lo, hi) ==
    IF lo > hi THEN 0
    ELSE IF lo = hi THEN lo * bs[lo]
    ELSE PosSum(bs, lo, (lo + hi) \div 2)
            + PosSum(bs, ((lo + hi) \div 2) + 1, hi)

\* Output byte j of the weighted sums of bs, started from seed.
MixByte(bs, seed, j) ==
    (seed + Sum(bs, 1, Len(bs)) + 2 * j * PosSum(bs, 1, Len(bs))) % 256

Mix(bs, outLen) ==
    LET s1 == Sum(bs, 1, Len(bs))
        s2 == PosSum(bs, 1, Len(bs))
    IN  [j \in 1..outLen |-> (j + s1 + 2 * j * s2) % 256]

(***************************************************************************)
(* The password hasher.                                                    *)
(***************************************************************************)
\* HashPassword's Argon2id parameters
memory == 65536
time == 1
threads == 4
keyLen == 32
saltLen == 16
\* All byte strings over {"a", "b"} of length at most n.
RECURSIVE StringsUpTo(_)
StringsUpTo(n) ==
    IF n = 0 THEN {<<>>}
    ELSE LET shorter == StringsUpTo(n - 1)
         IN  shorter \cup {s \o <<c>> : s \in shorter, c \in {97, 98}}

Passwords == StringsUpTo(MaxPwLen)

\* What crypto/rand.Read can leave in the salt buffer: one of a few salts of
\* saltLen bytes, or an error.
SaltOf(k) == [i \in 1..saltLen |-> (k * 37 + i * (k + 1)) % 256]
RandSalts == {[ok |-> TRUE, bytes |-> SaltOf(k)] : k \in 0..MaxSaltSeed}
               \cup {[ok |-> FALSE, bytes |-> <<>>]}

\* The Argon2id key of kl bytes for a password and a salt under the cost
\* parameters t, m and p, each given by its decimal digits: a stand-in that
\* mixes all of them in.
Argon2id(password, salt, t, m, p, kl) ==
    Mix(<<kl>> \o p \o <<Comma>> \o m \o <<Comma>> \o t
        \o <<Comma, Len(password)>> \o password
        \o <<Len(salt)>> \o salt, kl)

\* argon2.IDKey(password, salt, time, memory, threads, keyLen). The library
\* panics when time < 1 or threads < 1. t and m are decimal digit strings,
\* p is the uint8 the caller passes.
IDKey(password, salt, t, m, p, kl) ==
    IF t = <<48>> \/ p < 1
    THEN [panic |-> TRUE, key |-> <<>>]
    ELSE [panic |-> FALSE,
          key |-> Argon2id(password, salt, t, m, FormatUint(p), kl)]

\* A faulty variant: the salt is generated before the password is looked at.
HashPasswordSaltFirst(password, r) ==
    IF ~r.ok THEN [out |-> <<>>, err |-> ErrFailedToGenerateSalt]
    ELSE IF Len(password) = 0 THEN [out |-> <<>>, err |-> ErrPasswordEmpty]
    ELSE [out |-> <<Dollar>> \o RawStdEncode(r.bytes), err |-> Nil]

\* HashPassword(ctx, password), with r what rand.Read gave.
HashPassword(password, r) ==
    IF Len(password) = 0 THEN [out |-> <<>>, err |-> ErrPasswordEmpty]
    ELSE IF ~r.ok THEN [out |-> <<>>, err |-> ErrFailedToGenerateSalt]
    ELSE LET salt == r.bytes
             hash == IDKey(password, salt, FormatUint(time), FormatUint(memory),
                           threads, keyLen).key
             b64Salt == RawStdEncode(salt)
             b64Hash == RawStdEncode(hash)
             encoded == <<Dollar>> \o StrArgon2id \o <<Dollar>> \o StrV19
                        \o <<Dollar>> \o StrMEq \o FormatUint(memory)
                        \o <<Comma>> \o StrTEq \o FormatUint(time)
                        \o <<Comma>> \o StrPEq \o FormatUint(threads)
                        \o <<Dollar>> \o b64Salt \o <<Dollar>> \o b64Hash
         IN  [out |-> encoded, err |-> Nil]

\* A faulty variant: a key that does not match is reported as an error.
CompareKeysErrOnMismatch(hashBytes, computedHash) ==
    IF hashBytes = computedHash
    THEN [ok |-> TRUE, err |-> Nil, panic |-> FALSE, derived |-> TRUE]
    ELSE [ok |-> FALSE, err |-> ErrInvalidHashFormat, panic |-> FALSE,
          derived |-> TRUE]

\* A faulty variant: keys of one length are taken for equal.
CompareKeysByLength(hashBytes, computedHash) ==
    [ok |-> Len(hashBytes) = Len(computedHash), err |-> Nil, panic |-> FALSE,
     derived |-> TRUE]

\* return hmac.Equal(hashBytes, computedHash), nil
CompareKeys(hashBytes, computedHash) ==
    [ok |-> hashBytes = computedHash, err |-> Nil, panic |-> FALSE,
     derived |-> TRUE]

\* An early return, before any key is derived.
CompareFails ==
    [ok |-> FALSE, err |-> ErrInvalidHashFormat, panic |-> FALSE,
     derived |-> FALSE]

\* ComparePassword(ctx, password, hash)
ComparePassword(password, hash) ==
    LET parts == Split(hash, Dollar)
    IN  IF Len(parts) # 6 THEN CompareFails
        ELSE IF parts[2] # StrArgon2id THEN CompareFails
        ELSE
        LET params == Split(parts[4], Comma)
        IN  IF Len(params) # 3 THEN CompareFails
            ELSE
            LET m == ParseUint32(TrimPrefix(params[1], StrMEq))
                t == ParseUint32(TrimPrefix(params[2], StrTEq))
                p == ParseUint32(TrimPrefix(params[3], StrPEq))
                salt == RawStdDecode(parts[5])
                hashBytes == RawStdDecode(parts[6])
            IN  IF ~m.ok \/ ~t.ok \/ ~p.ok \/ ~salt.ok \/ ~hashBytes.ok
                THEN CompareFails
                ELSE
                LET computed == IDKey(password, salt.val, t.val, m.val,
                                      Uint8(p.val), keyLen)
                IN  IF computed.panic
                    THEN [ok |-> FALSE, err |-> Nil, panic |-> TRUE,
                          derived |-> TRUE]
                    ELSE CompareKeys(hashBytes.val, computed.key)

(***************************************************************************)
(* The hasher's callers: a password is hashed, and a password is compared  *)
(* with the hash that was returned.                                        *)
(***************************************************************************)
HashPasswordCall(password, r) ==
    /\ hp' = [pw |-> password, res |-> HashPassword(password, r)]
    /\ cp' = None
    /\ UNCHANGED <<tokenVars, routeVars, cryptoVars, orgVars, accountVars, earlier>>

ComparePasswordCall(password) ==
    /\ hp # None
    /\ hp.res.err = Nil
    /\ cp' = [pw |-> password, hash |-> hp.res.out, hashedPw |-> hp.pw,
              res |-> ComparePassword(password, hp.res.out)]
    /\ UNCHANGED <<hp, tokenVars, routeVars, cryptoVars, orgVars, accountVars, earlier>>

InitHash ==
    /\ hp = None
    /\ cp = None
    /\ now = 0
    /\ jwtSecret = ""
    /\ tok = None
    /\ tv = None
    /\ enc = [i \in Instances |-> <<>>]
    /\ stored = None
    /\ dec = None
    /\ orgKey = <<>>
    /\ orgs = <<>>
    /\ orgCall = None
    /\ accounts = <<>>
    /\ activity = <<>>
    /\ earlier = <<>>
    /\ emails = <<>>
    /\ reqs = <<>>

NextHash ==
    \/ \E password \in Passwords, r \in RandSalts : HashPasswordCall(password, r)
    \/ \E password \in Passwords : ComparePasswordCall(password)

SpecHash == InitHash /\ [][NextHash]_vars

\* C4: comparing a non-empty password with the hash HashPassword returned
\* for that same password gives (true, nil).
HashThenCompareAccepts ==
    (cp # None /\ Len(cp.pw) > 0 /\ cp.pw = cp.hashedPw)
        => cp.res = [ok |-> TRUE, err |-> Nil, panic |-> FALSE,
                     derived |-> TRUE]

HashThenCompareWitness ==
    /\ cp # None
    /\ Len(cp.pw) > 0
    /\ cp.pw = cp.hashedPw
    /\ cp.hash = hp.res.out
    /\ cp.res.ok

\* C5: comparing a non-empty password with the hash of a different non-empty
\* password gives (false, nil): a false result and no error.
WrongPasswordRejected ==
    (cp # None /\ Len(cp.pw) > 0 /\ Len(cp.hashedPw) > 0 /\ cp.pw # cp.hashedPw)
        => cp.res = [ok |-> FALSE, err |-> Nil, panic |-> FALSE,
                     derived |-> TRUE]

WrongPasswordWitness ==
    /\ cp # None
    /\ Len(cp.pw) > 0
    /\ Len(cp.hashedPw) > 0
    /\ cp.pw # cp.hashedPw
    /\ ~cp.res.ok
    /\ cp.res.err = Nil

\* C23: HashPassword of the empty password returns the empty string and
\* ErrPasswordEmpty, whatever the random source would give, a failure to
\* give a salt included: no salt is generated and no key derived.
EmptyPasswordRefused ==
    (hp # None /\ hp.pw = <<>>)
        => hp.res = [out |-> <<>>, err |-> ErrPasswordEmpty]

EmptyPasswordWitness ==
    /\ hp # None
    /\ hp.pw = <<>>
    /\ hp.res.err = ErrPasswordEmpty

(***************************************************************************)
(* ComparePassword on any stored string: the hash read from the accounts   *)
(* table is whatever was written there.  A stored string is described by   *)
(* how it was put together, field by field.                                *)
(***************************************************************************)
\* The password a stored hash was made for.
HashedPassword == <<97>>

\* The salt of the stored hashes.
StoredSalt == SaltOf(0)

\* The parameter field's three values as they may stand in a stored hash:
\* the defaults, other values, values without the prefix, with no digits,
\* beyond 32 bits, zero, and beyond 8 bits.
MFields ==
    {StrMEq \o FormatUint(memory), StrMEq \o FormatUint(memory + 1),
     FormatUint(memory), StrMEq, StrMEq \o StrMaxUint32 \o <<48>>}
TFields ==
    {StrTEq \o FormatUint(time), StrTEq \o FormatUint(time + 1),
     StrTEq \o <<48>>, StrTEq \o <<120>>}
PFields ==
    {StrPEq \o FormatUint(threads), StrPEq \o FormatUint(threads + 1),
     StrPEq \o <<48>>, StrPEq \o FormatUint(256),
     StrPEq \o FormatUint(256 + threads), StrPEq \o <<45>> \o FormatUint(threads)}

\* The value a parameter field holds, by its decimal digits, for a field
\* that holds one.
Written(field, prefix) == StripZeros(TrimPrefix(field, prefix))

\* A field holds an unsigned integer: digits, and nothing else, after the
\* prefix.
HoldsUnsigned(field, prefix) ==
    LET v == TrimPrefix(field, prefix)
    IN  Len(v) > 0 /\ \A i \in 1..Len(v) : v[i] >= 48 /\ v[i] <= 57

\* The ways the salt or the key may be written: unpadded base64, the same
\* with a line end inside, padded base64, with a character that is not of
\* the alphabet, and with one character left over.
Writings == {"raw", "newline", "padded", "badchar", "leftover"}

WriteBytes(b, how) ==
    IF how = "raw" THEN RawStdEncode(b)
    ELSE IF how = "newline"
    THEN <<RawStdEncode(b)[1], NewLine>> \o Tail(RawStdEncode(b))
    ELSE IF how = "padded" THEN StdEncode(b)
    ELSE IF how = "badchar" THEN <<42>> \o Tail(RawStdEncode(b))
    ELSE LET raw == RawStdEncode(b)
             more == (5 - (Len(raw) % 4)) % 4
         IN  raw \o SubSeq(raw, 1, IF more = 0 THEN 4 ELSE more)

\* Unpadded standard base64 as encoding/base64 reads it: characters of the
\* alphabet, line ends aside, and never one character left over.
IsRawBase64(str) ==
    LET chars == {i \in 1..Len(str) : str[i] \notin {NewLine, CarriageReturn}}
    IN  /\ \A i \in chars :
              \/ (str[i] >= 65 /\ str[i] <= 90)
              \/ (str[i] >= 97 /\ str[i] <= 122)
              \/ (str[i] >= 48 /\ str[i] <= 57)
              \/ str[i] \in {43, 47}
        /\ Cardinality(chars) % 4 # 1

\* The key bytes of a stored hash: the key of the hashed password under
\* HashPassword's parameters, under the parameters the hash states, or
\* bytes that are no key of it.
KeyKinds == {"defaults", "written", "other"}

StoredKey(f) ==
    IF f.key = "defaults"
    THEN Argon2id(HashedPassword, StoredSalt, FormatUint(time),
                  FormatUint(memory), FormatUint(threads), keyLen)
    ELSE IF f.key = "written"
    THEN Argon2id(HashedPassword, StoredSalt, Written(f.t, StrTEq),
                  Written(f.m, StrMEq), Written(f.p, StrPEq), keyLen)
    ELSE [i \in 1..keyLen |-> i]

\* A stored hash as HashPassword writes it for HashedPassword.
Genuine ==
    [shape |-> "six", alg |-> StrArgon2id, nparams |-> 3,
     m |-> StrMEq \o FormatUint(memory), t |-> StrTEq \o FormatUint(time),
     p |-> StrPEq \o FormatUint(threads),
     salt |-> "raw", key |-> "defaults", keyAs |-> "raw"]

\* The stored hashes of the model: every choice of the three parameter
\* values and of the key, and the genuine hash with one field, or a field
\* and a parameter, put wrong.
StoredForms ==
    {[Genuine EXCEPT !.m = m, !.t = t, !.p = p, !.key = k] :
        m \in MFields, t \in TFields, p \in PFields, k \in KeyKinds}
    \cup {[Genuine EXCEPT !.shape = x] : x \in {"five", "seven", "empty"}}
    \cup {[Genuine EXCEPT !.alg = SubSeq(StrArgon2id, 1, 7), !.p = p] :
            p \in PFields}
    \cup {[Genuine EXCEPT !.nparams = n] : n \in {2, 4}}
    \cup {[Genuine EXCEPT !.salt = w, !.t = t] : w \in Writings, t \in TFields}
    \cup {[Genuine EXCEPT !.keyAs = w, !.p = p] : w \in Writings, p \in PFields}

\* The string a form stands for.
Assemble(f) ==
    LET params ==
            IF f.nparams = 2 THEN f.m \o <<Comma>> \o f.t
            ELSE IF f.nparams = 3
            THEN f.m \o <<Comma>> \o f.t \o <<Comma>> \o f.p
            ELSE f.m \o <<Comma>> \o f.t \o <<Comma>> \o f.p
                 \o <<Comma>> \o f.p
        six == <<Dollar>> \o f.alg \o <<Dollar>> \o StrV19
               \o <<Dollar>> \o params
               \o <<Dollar>> \o WriteBytes(StoredSalt, f.salt)
               \o <<Dollar>> \o WriteBytes(StoredKey(f), f.keyAs)
    IN  IF f.shape = "six" THEN six
        ELSE IF f.shape = "five" THEN Tail(six)
        ELSE IF f.shape = "seven" THEN six \o <<Dollar>>
        ELSE <<>>

\* The accounts table holds a stored hash, and ComparePassword is called with
\* passwords against it.
InitCompare ==
    /\ hp \in {[pw |-> HashedPassword,
                 res |-> [out |-> Assemble(f), err |-> Nil],
                 form |-> f] : f \in StoredForms}
    /\ cp = None
    /\ now = 0
    /\ jwtSecret = ""
    /\ tok = None
    /\ tv = None
    /\ enc = [i \in Instances |-> <<>>]
    /\ stored = None
    /\ dec = None
    /\ orgKey = <<>>
    /\ orgs = <<>>
    /\ orgCall = None
    /\ accounts = <<>>
    /\ activity = <<>>
    /\ earlier = <<>>
    /\ emails = <<>>
    /\ reqs = <<>>

NextCompare == \E password \in Passwords : ComparePasswordCall(password)

SpecCompare == InitCompare /\ [][NextCompare]_vars

\* C11: ComparePassword returns to its caller, whatever the stored hash is:
\* a boolean with no error, or false with ErrInvalidHashFormat; it never
\* panics.
CompareAlwaysReturns ==
    cp # None =>
        /\ ~cp.res.panic
        /\ \/ cp.res.err = Nil
           \/ (cp.res.err = ErrInvalidHashFormat /\ ~cp.res.ok)

\* A value given by its digits fits 32 bits.
FitsUint32(d) ==
    Len(d) < Len(StrMaxUint32)
        \/ (Len(d) = Len(StrMaxUint32) /\ DigitsLeq(d, StrMaxUint32))

\* A stored hash is well-formed: six fields, the algorithm, three parameter
\* values of 32 bits, and the salt and the key in unpadded base64.
WellFormed(f) ==
    /\ f.shape = "six"
    /\ f.alg = StrArgon2id
    /\ f.nparams = 3
    /\ HoldsUnsigned(f.m, StrMEq) /\ FitsUint32(Written(f.m, StrMEq))
    /\ HoldsUnsigned(f.t, StrTEq) /\ FitsUint32(Written(f.t, StrTEq))
    /\ HoldsUnsigned(f.p, StrPEq) /\ FitsUint32(Written(f.p, StrPEq))
    /\ IsRawBase64(WriteBytes(StoredSalt, f.salt))
    /\ IsRawBase64(WriteBytes(StoredKey(f), f.keyAs))

\* The parameter values a stored hash states.
WrittenParams(f) ==
    <<Written(f.m, StrMEq), Written(f.t, StrTEq), Written(f.p, StrPEq)>>

\* C12: for a well-formed stored hash, ComparePassword gives true exactly
\* when the stored key is the Argon2id key of the password under the salt
\* and the values of m, t and p written in the hash; so a hash that
\* verifies stops verifying when one of m, t or p is changed to another
\* value.
ComparesUnderWrittenParams ==
    (cp # None /\ WellFormed(hp.form)) =>
        /\ cp.res.ok =
              (StoredKey(hp.form) =
                 Argon2id(cp.pw, StoredSalt, Written(hp.form.t, StrTEq),
                          Written(hp.form.m, StrMEq),
                          Written(hp.form.p, StrPEq), keyLen))
        /\ (/\ hp.form.key = "defaults"
            /\ WrittenParams(hp.form) # WrittenParams(Genuine))
              => ~cp.res.ok

\* A stored hash has not six fields, names another algorithm, does not hold
\* three parameter values that are unsigned integers, or holds a salt or a
\* key that is no unpadded base64.
Malformed(f) ==
    \/ f.shape # "six"
    \/ f.alg # StrArgon2id
    \/ f.nparams # 3
    \/ ~HoldsUnsigned(f.m, StrMEq)
    \/ ~HoldsUnsigned(f.t, StrTEq)
    \/ ~HoldsUnsigned(f.p, StrPEq)
    \/ ~IsRawBase64(WriteBytes(StoredSalt, f.salt))
    \/ ~IsRawBase64(WriteBytes(StoredKey(f), f.keyAs))

\* C13: ComparePassword returns (false, ErrInvalidHashFormat), and derives
\* no key, whenever the stored hash has not exactly six fields, names
\* another algorithm, does not hold three parameter values that are
\* unsigned integers, or holds a salt or a key that is no unpadded base64.
MalformedHashRejected ==
    (cp # None /\ Malformed(hp.form)) => cp.res = CompareFails

\* A hash whose salt is padded, and which states t=0, was refused.
MalformedHashWitness ==
    /\ cp # None
    /\ hp.form.salt = "padded"
    /\ hp.form.t = StrTEq \o <<48>>
    /\ cp.res = CompareFails

(***************************************************************************)
(* A sequence of HashPassword calls: the caller keeps what the calls       *)
(* returned, the earlier results in earlier and the last one in hp.        *)
(***************************************************************************)
KeepHashed ==
    /\ hp # None
    /\ hp.res.err = Nil
    /\ Len(earlier) < MaxEarlier
    /\ earlier' = Append(earlier, hp)
    /\ hp' = None
    /\ cp' = None
    /\ UNCHANGED <<tokenVars, routeVars, cryptoVars, orgVars, accountVars>>

NextSalts ==
    \/ \E password \in Passwords, r \in RandSalts : HashPasswordCall(password, r)
    \/ KeepHashed

SpecSalts == InitHash /\ [][NextSalts]_vars

\* The successful calls so far, in order, each with the password it hashed.
HashesReturned ==
    earlier \o (IF hp # None /\ hp.res.err = Nil THEN <<hp>> ELSE <<>>)

\* The salt field of an encoded hash.
SaltField(hash) == Split(hash, Dollar)[5]

ErrJWTSecretNotSet == "jwt secret is not set"
ErrSubjectClaimNotFound == "subject claim not found in token"
ErrInvalidSubjectClaim == "invalid subject claim type"
\* The errors of jwt.Parse
ErrTokenMalformed == "token is malformed"
ErrTokenSignatureInvalid == "token signature is invalid"
ErrTokenExpired == "token is expired"

\* time.Hour * 24, in seconds
TokenTTL == 86400
\* ":"
Colon == 58
\* "password-reset"
StrPasswordReset ==
    <<112, 97, 115, 115, 119, 111, 114, 100, 45, 114, 101, 115, 101, 116>>

AccountIDs == 1..MaxAccountID
Secrets == {"", "secret-1", "secret-2"}

\* The instants the clock is seen at: around the start, and around one
\* token lifetime later.
DayTicks == TokenTTL * TicksPerSecond
Instants == (0..MaxOffset)
              \cup {DayTicks + d : d \in (0 - MaxOffset)..MaxOffset}

\* Time.Unix(): whole seconds, the rest cut off
Unix(t) == t \div TicksPerSecond

\* The HMAC-SHA-256 of the signing input under the secret.
HS256(secret, claims) == <<"HS256", secret, claims>>

\* The HMAC signing methods the parser knows, whose key is a byte slice as
\* the key function returns it, and the signature of each.
HMACAlgs == {"HS256", "HS384", "HS512"}
HMAC(alg, secret, claims) ==
    IF alg = "HS256" THEN HS256(secret, claims) ELSE <<alg, secret, claims>>

\* jwt.NewWithClaims(jwt.SigningMethodHS256, claims).SignedString(secret):
\* header, claims and signature, the claims as the JSON values they are
\* written as.
SignedString(claims, secret) ==
    [parts |-> 3, alg |-> "HS256", claims |-> claims,
     sig |-> HS256(secret, claims)]

\* The empty string returned with an error.
EmptyToken == [parts |-> 0]

\* The claims of both purposes: t1 and t2 are the two readings of
\* time.Now(), the first for "iat", the second for "exp".
Claims(sub, t1, t2) ==
    [sub |-> sub, iss |-> "spsyncpro_api",
     iat |-> Unix(t1), exp |-> Unix(t2) + TokenTTL]

\* GenerateAuthToken(ctx, account), under the configured secret.
GenerateAuthToken(id, t1, t2, secret) ==
    IF secret = "" THEN [out |-> EmptyToken, err |-> ErrJWTSecretNotSet]
    ELSE [out |-> SignedString(Claims([json |-> "number", val |-> FormatUint(id)],
                                      t1, t2),
                               secret),
          err |-> Nil]

\* A faulty variant: the purpose marker joined with "-" in place of ":".
PasswordResetSubjectDash(id) == FormatUint(id) \o <<45>> \o StrPasswordReset

\* strconv.FormatUint(uint64(account.ID), 10) + ":password-reset"
PasswordResetSubject(id) == FormatUint(id) \o <<Colon>> \o StrPasswordReset

\* GeneratePasswordResetToken(ctx, account), under the configured secret.
GeneratePasswordResetToken(id, t1, t2, secret) ==
    IF secret = "" THEN [out |-> EmptyToken, err |-> ErrJWTSecretNotSet]
    ELSE [out |-> SignedString(
                      Claims([json |-> "string", val |-> PasswordResetSubject(id)],
                             t1, t2),
                      secret),
          err |-> Nil]

\* A JSON value decoded into interface{}: a number, written by its digits,
\* becomes a float64 (exact for the integers below 2^53, which all account
\* IDs of the model are), a string a string.
JSONDecode(v) ==
    IF v.json = "number"
    THEN [type |-> "float64", val |-> DigitsToNat(v.val, 0)]
    ELSE IF v.json = "string" THEN [type |-> "string", val |-> v.val]
    ELSE [type |-> "absent", val |-> 0]

\* A faulty variant: a token is still taken at the very instant of its expiry.
NotExpiredInclusive(t, exp) == t <= exp * TicksPerSecond

\* The validator's check of "exp": now.Before(exp)
NotExpired(t, exp) == t < exp * TicksPerSecond

\* A faulty variant: the claims are read without the signature being
\* verified.
JwtParseUnverified(token, secret, t) ==
    IF token.parts # 3
    THEN [err |-> ErrTokenMalformed, sub |-> JSONDecode([json |-> "absent"])]
    ELSE IF ~NotExpired(t, token.claims.exp)
    THEN [err |-> ErrTokenExpired, sub |-> JSONDecode([json |-> "absent"])]
    ELSE [err |-> Nil, sub |-> JSONDecode(token.claims.sub)]

\* jwt.Parse(token, keyFunc) at clock reading t, the key function returning
\* the secret: the structure, then the signature, then the claims.
JwtParse(token, secret, t) ==
    IF token.parts # 3
    THEN [err |-> ErrTokenMalformed, sub |-> JSONDecode([json |-> "absent"])]
    ELSE IF token.alg \notin HMACAlgs
            \/ token.sig # HMAC(token.alg, secret, token.claims)
    THEN [err |-> ErrTokenSignatureInvalid, sub |-> JSONDecode([json |-> "absent"])]
    ELSE IF ~NotExpired(t, token.claims.exp)
    THEN [err |-> ErrTokenExpired, sub |-> JSONDecode([json |-> "absent"])]
    ELSE [err |-> Nil, sub |-> JSONDecode(token.claims.sub)]

Returns(id, err) == [id |-> id, err |-> err, panic |-> FALSE]
\* A failed type assertion x.(T) without the comma-ok form: nothing returns.
Panics == [id |-> 0, err |-> Nil, panic |-> TRUE]

\* A faulty variant: a string subject is read up to its first ":" as the account ID.
AuthSubjectLenient(sub) ==
    IF sub.type = "float64" THEN Returns(sub.val, Nil)
    ELSE LET n == ParseUint64(Split(sub.val, Colon)[1])
         IN  IF n.ok THEN Returns(DigitsToNat(n.val, 0), Nil)
             ELSE Returns(0, ErrInvalidSubjectClaim)

\* accountIDFloat, ok := subClaim.(float64) ... return uint(accountIDFloat), nil
AuthSubject(sub) ==
    IF sub.type = "float64" THEN Returns(sub.val, Nil)
    ELSE Returns(0, ErrInvalidSubjectClaim)

\* A faulty variant: a session token is refused once a logout of its account
\* is on record.
ValidateAuthTokenRevocable(token, secret, t) ==
    IF secret = "" THEN Returns(0, ErrJWTSecretNotSet)
    ELSE LET parsed == JwtParse(token, secret, t)
         IN  IF parsed.err # Nil THEN Returns(0, parsed.err)
             ELSE IF parsed.sub.type = "absent"
             THEN Returns(0, ErrSubjectClaimNotFound)
             ELSE IF \E k \in 1..Len(activity) :
                        /\ activity[k].activity = "logout"
                        /\ AuthSubject(parsed.sub).id = activity[k].accountID
             THEN Returns(0, ErrTokenSignatureInvalid)
             ELSE AuthSubject(parsed.sub)

\* ValidateAuthToken(ctx, token), under the configured secret at time t.
ValidateAuthToken(token, secret, t) ==
    IF secret = "" THEN Returns(0, ErrJWTSecretNotSet)
    ELSE LET parsed == JwtParse(token, secret, t)
         IN  IF parsed.err # Nil THEN Returns(0, parsed.err)
             ELSE IF parsed.sub.type = "absent"
             THEN Returns(0, ErrSubjectClaimNotFound)
             ELSE AuthSubject(parsed.sub)

\* parts := strings.Split(subClaim.(string), ":") and what follows it.
ResetSubject(sub) ==
    IF sub.type # "string" THEN Panics
    ELSE LET parts == Split(sub.val, Colon)
         IN  IF Len(parts) # 2 THEN Returns(0, ErrInvalidSubjectClaim)
             ELSE LET accountID == ParseUint64(parts[1])
                  IN  IF ~accountID.ok THEN Returns(0, accountID.err)
                      ELSE IF parts[2] # StrPasswordReset
                      THEN Returns(0, ErrInvalidSubjectClaim)
                      ELSE Returns(DigitsToNat(accountID.val, 0), Nil)

\* A faulty variant: the token is parsed before the secret is looked at.
ValidatePasswordResetTokenParseFirst(token, secret, t) ==
    LET parsed == JwtParse(token, secret, t)
    IN  IF parsed.err # Nil THEN Returns(0, parsed.err)
        ELSE IF secret = "" THEN Returns(0, ErrJWTSecretNotSet)
        ELSE IF parsed.sub.type = "absent"
        THEN Returns(0, ErrSubjectClaimNotFound)
        ELSE ResetSubject(parsed.sub)

\* ValidatePasswordResetToken(ctx, token), under the configured secret at
\* time t.
ValidatePasswordResetToken(token, secret, t) ==
    IF secret = "" THEN Returns(0, ErrJWTSecretNotSet)
    ELSE LET parsed == JwtParse(token, secret, t)
         IN  IF parsed.err # Nil THEN Returns(0, parsed.err)
             ELSE IF parsed.sub.type = "absent"
             THEN Returns(0, ErrSubjectClaimNotFound)
             ELSE ResetSubject(parsed.sub)

(***************************************************************************)
(* The token core's callers and its environment: the clock moves on, the   *)
(* configuration is reloaded, a token is issued to a client, and the       *)
(* client's token is validated for either purpose.                         *)
(***************************************************************************)
Tick(t) ==
    /\ t > now
    /\ now' = t
    /\ UNCHANGED <<jwtSecret, tok, tv, hashVars, routeVars, cryptoVars, orgVars, accountVars, earlier>>

SetSecret(secret) ==
    /\ secret # jwtSecret
    /\ jwtSecret' = secret
    /\ UNCHANGED <<now, tok, tv, hashVars, routeVars, cryptoVars, orgVars, accountVars, earlier>>

\* The clock may move on between the two readings of time.Now(); the call
\* returns at the second one.
GenerateAuthTokenCall(id, t2) ==
    /\ t2 >= now
    /\ now' = t2
    /\ tok' = [kind |-> "auth", id |-> id, secret |-> jwtSecret,
               returnedAt |-> t2,
               res |-> GenerateAuthToken(id, now, t2, jwtSecret)]
    /\ tv' = None
    /\ UNCHANGED <<jwtSecret, hashVars, routeVars, cryptoVars, orgVars, accountVars, earlier>>

GeneratePasswordResetTokenCall(id, t2) ==
    /\ t2 >= now
    /\ now' = t2
    /\ tok' = [kind |-> "reset", id |-> id, secret |-> jwtSecret,
               returnedAt |-> t2,
               res |-> GeneratePasswordResetToken(id, now, t2, jwtSecret)]
    /\ tv' = None
    /\ UNCHANGED <<jwtSecret, hashVars, routeVars, cryptoVars, orgVars, accountVars, earlier>>

ValidateAuthTokenCall ==
    /\ tok # None
    /\ tok.res.err = Nil
    /\ tv' = [op |-> "auth", at |-> now, secret |-> jwtSecret,
              res |-> ValidateAuthToken(tok.res.out, jwtSecret, now)]
    /\ UNCHANGED <<now, jwtSecret, tok, hashVars, routeVars, cryptoVars, orgVars, accountVars, earlier>>

ValidatePasswordResetTokenCall ==
    /\ tok # None
    /\ tok.res.err = Nil
    /\ tv' = [op |-> "reset", at |-> now, secret |-> jwtSecret,
              res |-> ValidatePasswordResetToken(tok.res.out, jwtSecret, now)]
    /\ UNCHANGED <<now, jwtSecret, tok, hashVars, routeVars, cryptoVars, orgVars, accountVars, earlier>>

InitToken ==
    /\ hp = None
    /\ cp = None
    /\ now = 0
    /\ jwtSecret \in Secrets
    /\ tok = None
    /\ tv = None
    /\ enc = [i \in Instances |-> <<>>]
    /\ stored = None
    /\ dec = None
    /\ orgKey = <<>>
    /\ orgs = <<>>
    /\ orgCall = None
    /\ accounts = <<>>
    /\ activity = <<>>
    /\ earlier = <<>>
    /\ emails = <<>>
    /\ reqs = <<>>

NextToken ==
    \/ \E t \in Instants : Tick(t)
    \/ \E secret \in Secrets : SetSecret(secret)
    \/ \E id \in AccountIDs, t2 \in Instants : GenerateAuthTokenCall(id, t2)
    \/ \E id \in AccountIDs, t2 \in Instants : GeneratePasswordResetTokenCall(id, t2)
    \/ ValidateAuthTokenCall
    \/ ValidatePasswordResetTokenCall

SpecToken == InitToken /\ [][NextToken]_vars

\* The token held in tok was issued and is validated at tv.at, before the
\* expiry it carries, under the secret it was signed with.
ValidatedUnexpired(op) ==
    /\ tv # None
    /\ tv.op = op
    /\ tv.secret = tok.secret
    /\ tv.at < tok.res.out.claims.exp * TicksPerSecond

\* C1: ValidatePasswordResetToken of an unexpired session token, under the
\* secret it was signed with, returns (0, ErrInvalidSubjectClaim).
SessionTokenRejectedAsReset ==
    (ValidatedUnexpired("reset") /\ tok.kind = "auth")
        => tv.res = Returns(0, ErrInvalidSubjectClaim)

\* C2: ValidateAuthToken of an unexpired password-reset token, under the
\* secret it was signed with, returns (0, ErrInvalidSubjectClaim).
ResetTokenRejectedAsSession ==
    (ValidatedUnexpired("auth") /\ tok.kind = "reset")
        => tv.res = Returns(0, ErrInvalidSubjectClaim)

ResetTokenRejectedWitness ==
    /\ ValidatedUnexpired("auth")
    /\ tok.kind = "reset"
    /\ tv.res.err = ErrInvalidSubjectClaim

\* C6: the validator of a token's own purpose, before the token's expiry and
\* under the secret it was signed with, returns the account ID the token was
\* issued for and no error.
TokenRoundTrip ==
    (ValidatedUnexpired(tok.kind)) => tv.res = Returns(tok.id, Nil)

TokenRoundTripWitness ==
    /\ ValidatedUnexpired("reset")
    /\ tok.kind = "reset"
    /\ tv.res = Returns(tok.id, Nil)
    /\ tv.at > tok.returnedAt

\* C7, first part: from 24 hours after the token was issued on, both
\* validators return an error and account ID 0.
RejectedFromExpiryOn ==
    (tv # None /\ tv.at >= tok.returnedAt + DayTicks)
        => (tv.res.err # Nil /\ tv.res.id = 0 /\ ~tv.res.panic)

\* C7, second part: a token rejected as expired is rejected by every later
\* validation.
ExpiredStaysRejected ==
    (tv # None /\ tv.res.err = ErrTokenExpired /\ tv' # None)
        => (tv'.res.err # Nil /\ tv'.res.id = 0)

\* C7: a token is accepted only while the clock is before its expiry: it is
\* rejected from 24 hours after its issue on, and once rejected as expired
\* it is never accepted again.
ExpiredTokenRejected == []RejectedFromExpiryOn /\ [][ExpiredStaysRejected]_vars

ExpiredTokenWitness ==
    /\ tv # None
    /\ tv.at >= tok.returnedAt + DayTicks
    /\ tv.secret = tok.secret
    /\ tv.res.err = ErrTokenExpired

\* C16: every token issued for either purpose carries an expiry exactly
\* 86400 seconds after its own issued-at claim, wherever the clock stands at
\* the two readings taken while the claims are built.
ExpiryIsIssuedAtPlusTTL ==
    (tok # None /\ tok.kind \in {"auth", "reset"} /\ tok.res.err = Nil)
        => tok.res.out.claims.exp = tok.res.out.claims.iat + TokenTTL

(***************************************************************************)
(* The validators on any token a client presents: token strings that are   *)
(* no tokens, tokens signed by a holder of a secret with any subject, and  *)
(* tokens changed after they were signed.                                  *)
(***************************************************************************)
\* "session"
StrSession == <<115, 101, 115, 115, 105, 111, 110>>

\* Subjects as strings: the reset subject of account 1, the same with a
\* first part that is no number or is empty, with another marker, with one
\* part and with three.
StringSubjects ==
    <<PasswordResetSubject(1),
      <<120, Colon>> \o StrPasswordReset,
      <<Colon>> \o StrPasswordReset,
      <<49, Colon>> \o StrSession,
      <<120, Colon>> \o StrSession,
      <<49>>,
      <<>>,
      PasswordResetSubject(1) \o <<Colon, 49>>>>

\* The "sub" claim of a presented token: string k of StringSubjects, or for
\* k = 0 the number 1.
PresentedSubject(k) ==
    IF k = 0 THEN [json |-> "number", val |-> FormatUint(1)]
    ELSE [json |-> "string", val |-> StringSubjects[k]]

\* A token with the given subject, expiring a day after instant 0, signed
\* with a method under a secret.
Signed(alg, secret, sub) ==
    [parts |-> 3, alg |-> alg, claims |-> Claims(sub, 0, 0),
     sig |-> HMAC(alg, secret, Claims(sub, 0, 0))]

\* The tokens of the model by how they are made: kind "signed" under the
\* secret named, "unsigned" with the method "none", "altered" with the
\* subject changed after signing, "malformed" with a segment missing.
PresentedTokens ==
    [kind : {"signed", "unsigned", "altered", "malformed"},
     alg : {"HS256", "HS384"},
     secret : Secrets \ {""},
     sub : 0..Len(StringSubjects)]

MakeToken(made) ==
    LET signed == Signed(made.alg, made.secret, PresentedSubject(made.sub))
    IN  IF made.kind = "signed" THEN signed
        ELSE IF made.kind = "unsigned" THEN [signed EXCEPT !.alg = "none"]
        ELSE IF made.kind = "altered"
        THEN [signed EXCEPT
                !.claims = Claims([json |-> "number", val |-> FormatUint(2)],
                                  0, 0)]
        ELSE [signed EXCEPT !.parts = 2]

\* A client comes to hold a token that the service did not issue to it.
PresentTokenCall(made) ==
    /\ tok = None
    /\ tok' = [kind |-> made.kind, id |-> 0, secret |-> made.secret,
               returnedAt |-> 0, res |-> [out |-> MakeToken(made), err |-> Nil]]
    /\ tv' = None
    /\ UNCHANGED <<now, jwtSecret, hashVars, routeVars, cryptoVars, orgVars, accountVars, earlier>>

NextPresent ==
    \/ \E t \in Instants : Tick(t)
    \/ \E secret \in Secrets : SetSecret(secret)
    \/ \E made \in PresentedTokens : PresentTokenCall(made)
    \/ ValidateAuthTokenCall
    \/ ValidatePasswordResetTokenCall

SpecPresent == InitToken /\ [][NextPresent]_vars

\* The validator named has run, before the token's expiry and under the
\* secret it was signed with, on a signed token whose subject is a string.
ValidatedStringSubject(op) ==
    /\ ValidatedUnexpired(op)
    /\ tok.kind = "signed"
    /\ tok.res.out.claims.sub.json = "string"

\* C14: for a correctly signed, unexpired token with a string subject,
\* ValidatePasswordResetToken returns (0, ErrInvalidSubjectClaim) whenever
\* the subject has not exactly two parts or its second part is not
\* "password-reset", whatever the first part is; a numeric parse error is
\* returned only when the second part is "password-reset".
MarkerCheckedBeforeNumber ==
    ValidatedStringSubject("reset") =>
        LET parts == Split(tok.res.out.claims.sub.val, Colon)
        IN  /\ (Len(parts) # 2 \/ parts[2] # StrPasswordReset)
                  => tv.res = Returns(0, ErrInvalidSubjectClaim)
            /\ tv.res.err \in {ErrSyntax, ErrRange}
                  => (Len(parts) = 2 /\ parts[2] = StrPasswordReset)

\* C15: both validators return an error and account ID 0 for every token
\* that is malformed or whose signature does not verify under the
\* configured secret, a token signed under another secret included; and
\* whenever an error is returned, the account ID returned is 0.
UnverifiedTokenRejected ==
    tv # None =>
        /\ (tok.kind \in {"malformed", "unsigned", "altered"}
                \/ tok.secret # tv.secret)
              => (tv.res.err # Nil /\ tv.res.id = 0 /\ ~tv.res.panic)
        /\ tv.res.err # Nil => tv.res.id = 0

\* A token signed under another secret than the configured one was refused
\* for its signature.
UnverifiedTokenWitness ==
    /\ tv # None
    /\ tok.kind = "signed"
    /\ tv.secret # ""
    /\ tok.secret # tv.secret
    /\ tv.res = Returns(0, ErrTokenSignatureInvalid)

(***************************************************************************)
(* The token core with tokens of both origins: issued by the core, or      *)
(* presented by a client.                                                  *)
(***************************************************************************)
NextIssueOrPresent ==
    \/ NextToken
    \/ \E made \in PresentedTokens : PresentTokenCall(made)

SpecIssueOrPresent == InitToken /\ [][NextIssueOrPresent]_vars

\* C21: under an empty configured secret, GenerateAuthToken and
\* GeneratePasswordResetToken return the empty token with ErrJWTSecretNotSet,
\* and ValidateAuthToken and ValidatePasswordResetToken return account ID 0
\* with ErrJWTSecretNotSet, whatever account or token they are given, a token
\* that does not parse included.
EmptySecretRefused ==
    /\ (tok # None /\ tok.kind \in {"auth", "reset"} /\ tok.secret = "")
          => tok.res = [out |-> EmptyToken, err |-> ErrJWTSecretNotSet]
    /\ (tv # None /\ tv.secret = "")
          => tv.res = Returns(0, ErrJWTSecretNotSet)

\* The reset validator, under an empty secret, was given a token that does
\* not parse.
EmptySecretWitness ==
    /\ tv # None
    /\ tv.op = "reset"
    /\ tv.secret = ""
    /\ tok.kind = "malformed"
    /\ tv.res.err = ErrJWTSecretNotSet

(***************************************************************************)
(* The account handlers around the token core.  The client keeps the first *)
(* token it is sent, in tok, and presents it with every later request; tv  *)
(* is what the validator made of it on the last request, with the number   *)
(* of activity rows there were at that moment.  The server keeps           *)
(* the accounts and their activity rows and nothing about tokens.  A       *)
(* request that is refused changes nothing but tv.  The clock moves on by  *)
(* at most one tick while a token is built, and the secret stays as        *)
(* configured at the start.                                                *)
(***************************************************************************)
\* The passwords requests carry: the one every account registered with, and
\* another.
RequestPasswords == {HashedPassword, <<98>>}

\* The accounts table after registration: two accounts.
Registered ==
    [id \in {1, 2} |->
        HashPassword(HashedPassword, [ok |-> TRUE, bytes |-> StoredSalt]).out]

\* What rand.Read gives the handlers that hash a password.
RequestSalt == [ok |-> TRUE, bytes |-> SaltOf(1)]

\* HashPassword of each request password, worked out once.
Hashed == [password \in RequestPasswords |-> HashPassword(password, RequestSalt)]

\* The values the password column takes, and ComparePassword of each request
\* password against each of them, worked out once.
PasswordColumn ==
    {Registered[id] : id \in DOMAIN Registered}
        \cup {Hashed[password].out : password \in RequestPasswords}
Compared ==
    [password \in RequestPasswords, hash \in PasswordColumn |->
        ComparePassword(password, hash)]

\* accountRepository.LogAccountActivity(ctx, accountID, activity).  Beyond
\* MaxActivity rows the insert fails, which every handler logs and passes
\* over.
LogAccountActivity(accountID, act) ==
    IF Len(activity) < MaxActivity
    THEN Append(activity, [accountID |-> accountID, activity |-> act])
    ELSE activity

\* The token sent to the client with a response: kept if it is the first.
Kept(kind, id, t2, res) ==
    IF tok = None
    THEN [kind |-> kind, id |-> id, secret |-> jwtSecret, returnedAt |-> t2,
          res |-> res]
    ELSE tok

\* AuthMiddleware: the Authorization header through ValidateAuthToken.
AuthMiddleware ==
    [op |-> "auth", at |-> now, secret |-> jwtSecret, rows |-> Len(activity),
     res |-> ValidateAuthToken(tok.res.out, jwtSecret, now)]

\* The middleware or handler went on with the account ID the validator
\* returned.
Accepted(v) == v.res.err = Nil /\ ~v.res.panic /\ v.res.id # 0

\* What the validator returned when it first accepted the client's token is
\* kept in earlier.
Remember(v) ==
    IF earlier = <<>> /\ Accepted(v)
    THEN <<[op |-> v.op, secret |-> v.secret, res |-> v.res]>>
    ELSE earlier

\* LoginAccount: the password compared, a session token issued at clock
\* readings now and t2, the login recorded.
LoginAccountCall(id, password, t2) ==
    /\ t2 \in {now, now + 1}
    /\ LET cmp == Compared[password, accounts[id]]
           res == GenerateAuthToken(id, now, t2, jwtSecret)
       IN  /\ ~cmp.panic /\ cmp.err = Nil /\ cmp.ok
           /\ res.err = Nil
           /\ tok' = Kept("auth", id, t2, res)
           /\ activity' = LogAccountActivity(id, "login")
    /\ now' = t2
    /\ UNCHANGED <<jwtSecret, tv, accounts, hashVars, routeVars, cryptoVars, orgVars,
                   earlier>>

\* ForgotPassword: a reset token issued at clock readings now and t2 and
\* mailed, the request recorded.
ForgotPasswordCall(id, t2) ==
    /\ t2 \in {now, now + 1}
    /\ LET res == GeneratePasswordResetToken(id, now, t2, jwtSecret)
       IN  /\ res.err = Nil
           /\ tok' = Kept("reset", id, t2, res)
           /\ activity' = LogAccountActivity(id, "forgot_password")
    /\ now' = t2
    /\ UNCHANGED <<jwtSecret, tv, accounts, hashVars, routeVars, cryptoVars, orgVars,
                   earlier>>

\* GetProfile behind the middleware.
GetProfileCall ==
    /\ tok # None
    /\ LET v == AuthMiddleware
       IN  tv' = v /\ earlier' = Remember(v)
    /\ UNCHANGED <<now, jwtSecret, tok, accountVars, hashVars, routeVars, cryptoVars,
                   orgVars>>

\* LogoutAccount behind the middleware: the logout is recorded.
LogoutAccountCall ==
    /\ tok # None
    /\ LET v == AuthMiddleware
       IN  /\ tv' = v
           /\ earlier' = Remember(v)
           /\ activity' = IF Accepted(v)
                          THEN LogAccountActivity(v.res.id, "logout")
                          ELSE activity
    /\ UNCHANGED <<now, jwtSecret, tok, accounts, hashVars, routeVars, cryptoVars,
                   orgVars>>

\* The handler's steps after it has the account ID, in ChangePassword from
\* comparing the old password on, in ResetPassword from hashing on: the
\* account's password column is replaced and the activity recorded.
SetPassword(id, newPassword, act) ==
    LET hashed == Hashed[newPassword]
    IN  IF id \in DOMAIN accounts /\ hashed.err = Nil
        THEN /\ accounts' = [accounts EXCEPT ![id] = hashed.out]
             /\ activity' = LogAccountActivity(id, act)
        ELSE UNCHANGED accountVars

\* ChangePassword behind the middleware.
ChangePasswordCall(oldPassword, newPassword) ==
    /\ tok # None
    /\ LET v == AuthMiddleware
           id == v.res.id
           cmp == Compared[oldPassword, accounts[id]]
       IN  /\ tv' = v
           /\ earlier' = Remember(v)
           /\ IF Accepted(v) /\ id \in DOMAIN accounts
                 /\ ~cmp.panic /\ cmp.err = Nil /\ cmp.ok
              THEN SetPassword(id, newPassword, "change_password")
              ELSE UNCHANGED accountVars
    /\ UNCHANGED <<now, jwtSecret, tok, hashVars, routeVars, cryptoVars, orgVars>>

\* ResetPassword: the token of the request body through
\* ValidatePasswordResetToken.
ResetPasswordCall(password) ==
    /\ tok # None
    /\ LET v == [op |-> "reset", at |-> now, secret |-> jwtSecret,
                 rows |-> Len(activity),
                 res |-> ValidatePasswordResetToken(tok.res.out, jwtSecret, now)]
       IN  /\ tv' = v
           /\ earlier' = Remember(v)
           /\ IF v.res.err = Nil /\ ~v.res.panic
              THEN SetPassword(v.res.id, password, "reset_password")
              ELSE UNCHANGED accountVars
    /\ UNCHANGED <<now, jwtSecret, tok, hashVars, routeVars, cryptoVars, orgVars>>

InitSession ==
    /\ hp = None
    /\ cp = None
    /\ now = 0
    /\ jwtSecret = "secret-1"
    /\ tok = None
    /\ tv = None
    /\ enc = [i \in Instances |-> <<>>]
    /\ stored = None
    /\ dec = None
    /\ orgKey = <<>>
    /\ orgs = <<>>
    /\ orgCall = None
    /\ accounts = Registered
    /\ activity = <<>>
    /\ earlier = <<>>
    /\ emails = <<"a@x.io", "b@x.io">>
    /\ reqs = <<>>

NextSession ==
    \/ \E t \in Instants : Tick(t)
    \/ \E id \in DOMAIN accounts, password \in RequestPasswords,
          t2 \in Instants :
          LoginAccountCall(id, password, t2)
    \/ \E id \in DOMAIN accounts, t2 \in Instants : ForgotPasswordCall(id, t2)
    \/ GetProfileCall
    \/ LogoutAccountCall
    \/ \E oldPassword, newPassword \in RequestPasswords :
          ChangePasswordCall(oldPassword, newPassword)
    \/ \E password \in RequestPasswords : ResetPasswordCall(password)

SpecSession == InitSession /\ [][NextSession]_vars

\* C17: tokens have no revoked state.  Once a validator has accepted the
\* client's token, a session token behind the middleware or a reset token in
\* a password reset, every later request that presents the token to that
\* validator under the same secret before the token's expiry gets the same
\* answer, whatever logins, logouts, password changes and resets have come
\* in between.
NoRevokedState ==
    (/\ earlier # <<>>
     /\ tv.op = earlier[1].op
     /\ tv.secret = earlier[1].secret
     /\ tv.at < tok.res.out.claims.exp * TicksPerSecond)
        => (tv.res = earlier[1].res /\ tv.res = Returns(tok.id, Nil))

\* The client's session token was accepted after a logout of its account
\* had been recorded.
NoRevokedStateWitness ==
    /\ earlier # <<>>
    /\ tok.kind = "auth"
    /\ tv.res = Returns(tok.id, Nil)
    /\ \E j \in 1..tv.rows :
          /\ activity[j].accountID = tok.id
          /\ activity[j].activity = "logout"

(***************************************************************************)
(* The secret encryptor: AES-GCM under the held key, base64 on the outside.*)
(***************************************************************************)
ErrInvalidKeySize == "invalid key size: must be 16, 24, or 32 bytes"
ErrCreateCipher == "failed to create cipher"
ErrGenerateNonce == "failed to generate nonce"
ErrDecodeBase64 == "failed to decode base64"
ErrTooShort == "ciphertext too short"
ErrAuthenticate == "failed to decrypt or authenticate"

\* gcm.NonceSize() and gcm.Overhead() of the standard GCM
NonceSize == 12
TagSize == 16

ValidKeySizes == {16, 24, 32}

KeyOf(n, seed) == [i \in 1..n |-> (seed * 53 + i * 7) % 256]
Keys == {KeyOf(n, 1) : n \in ValidKeySizes}
          \cup {KeyOf(32, seed) : seed \in 1..MaxKeySeed}
\* Keys of sizes NewEncryptor refuses.
BadKeys == {KeyOf(n, 1) : n \in {0, 10, 33}}

NonceOf(seed) == [i \in 1..NonceSize |-> (seed * 101 + i * 3) % 256]
RandNonces == {[ok |-> TRUE, bytes |-> NonceOf(k)] : k \in 0..MaxNonceSeed}
                \cup {[ok |-> FALSE, bytes |-> <<>>]}

Plaintexts == {[i \in 1..n |-> 96 + i] : n \in 0..MaxPlainLen}

\* A faulty variant: every key that is not longer than an AES-256 key is
\* taken.
NewEncryptorUpTo32(key) ==
    IF Len(key) > 32
    THEN [e |-> <<>>, err |-> ErrInvalidKeySize]
    ELSE [e |-> key, err |-> Nil]

\* NewEncryptor(key)
NewEncryptor(key) ==
    IF Len(key) # 16 /\ Len(key) # 24 /\ Len(key) # 32
    THEN [e |-> <<>>, err |-> ErrInvalidKeySize]
    ELSE [e |-> key, err |-> Nil]

\* What the cipher makes of its key.
KeyDigest(key) == MixByte(key, Len(key), 1)

\* The key stream byte that covers plaintext byte i, for a key of digest kd.
KeyStream(kd, nonce, i) == MixByte(nonce, kd, i)

\* A faulty variant: the tag covers the key and the length, not the bytes.
TagWithoutData(kd, nonce, ct) ==
    [j \in 1..TagSize |-> (kd * (2 * j + 1) + Len(ct)) % 256]

\* The integrity tag over the nonce and the ciphertext, for a key of digest kd.
Tag(kd, nonce, ct) ==
    LET data == nonce \o ct
        s1 == Sum(data, 1, Len(data))
        s2 == PosSum(data, 1, Len(data))
    IN  [j \in 1..TagSize |->
            (kd * (2 * j + 1) + Len(ct) + s1 + 2 * j * s2) % 256]

\* gcm.Seal(nonce, nonce, plaintext, nil): the nonce, then the ciphertext,
\* then the tag.
Seal(key, nonce, plaintext) ==
    LET kd == KeyDigest(key)
        ct == [i \in 1..Len(plaintext) |->
                 (plaintext[i] + KeyStream(kd, nonce, i)) % 256]
    IN  nonce \o ct \o Tag(kd, nonce, ct)

\* A faulty variant: the tag is not checked; the bytes are decrypted as they are.
OpenUnchecked(key, nonce, sealed) ==
    IF Len(sealed) < TagSize THEN [ok |-> FALSE, bytes |-> <<>>]
    ELSE LET kd == KeyDigest(key)
             ct == SubSeq(sealed, 1, Len(sealed) - TagSize)
         IN  [ok |-> TRUE,
              bytes |-> [i \in 1..Len(ct) |->
                  (ct[i] + 256 - KeyStream(kd, nonce, i)) % 256]]

\* gcm.Open(nil, nonce, ciphertext, nil)
Open(key, nonce, sealed) ==
    IF Len(sealed) < TagSize THEN [ok |-> FALSE, bytes |-> <<>>]
    ELSE LET kd == KeyDigest(key)
             ct == SubSeq(sealed, 1, Len(sealed) - TagSize)
             tag == SubSeq(sealed, Len(sealed) - TagSize + 1, Len(sealed))
         IN  IF tag # Tag(kd, nonce, ct) THEN [ok |-> FALSE, bytes |-> <<>>]
             ELSE [ok |-> TRUE,
                   bytes |-> [i \in 1..Len(ct) |->
                       (ct[i] + 256 - KeyStream(kd, nonce, i)) % 256]]

\* A faulty variant: the sealed bytes are encoded without padding.
EncryptUnpadded(key, plaintext, r) ==
    IF Len(key) \notin ValidKeySizes THEN [out |-> <<>>, err |-> ErrCreateCipher]
    ELSE IF ~r.ok THEN [out |-> <<>>, err |-> ErrGenerateNonce]
    ELSE [out |-> RawStdEncode(Seal(key, r.bytes, plaintext)), err |-> Nil]

\* Encryptor.Encrypt(plaintext) under the held key, with r what reading the
\* random source gave.
Encrypt(key, plaintext, r) ==
    IF Len(key) \notin ValidKeySizes THEN [out |-> <<>>, err |-> ErrCreateCipher]
    ELSE IF ~r.ok THEN [out |-> <<>>, err |-> ErrGenerateNonce]
    ELSE [out |-> StdEncode(Seal(key, r.bytes, plaintext)), err |-> Nil]

\* Encryptor.Decrypt(ciphertext) under the held key.
Decrypt(key, ciphertext) ==
    LET ciphertextBytes == StdDecode(ciphertext)
    IN  IF ~ciphertextBytes.ok THEN [out |-> <<>>, err |-> ErrDecodeBase64]
        ELSE IF Len(key) \notin ValidKeySizes
        THEN [out |-> <<>>, err |-> ErrCreateCipher]
        ELSE IF Len(ciphertextBytes.val) < NonceSize
        THEN [out |-> <<>>, err |-> ErrTooShort]
        ELSE LET nonce == SubSeq(ciphertextBytes.val, 1, NonceSize)
                 ciphertextOnly == SubSeq(ciphertextBytes.val, NonceSize + 1,
                                          Len(ciphertextBytes.val))
                 plaintextBytes == Open(key, nonce, ciphertextOnly)
             IN  IF ~plaintextBytes.ok THEN [out |-> <<>>, err |-> ErrAuthenticate]
                 ELSE [out |-> plaintextBytes.bytes, err |-> Nil]

\* Byte b with bit k flipped.
FlipBit(b, k) ==
    LET w == 2 ^ k
    IN  IF (b \div w) % 2 = 1 THEN b - w ELSE b + w

(***************************************************************************)
(* The encryptor's callers and the storage: instances are constructed, a   *)
(* secret is sealed and put at rest, one byte of it may be changed there,  *)
(* it is opened by an instance, and it is dropped.                         *)
(***************************************************************************)
NewEncryptorCall(i, key) ==
    /\ enc[i] = <<>>
    /\ i # Sealer => enc[Sealer] # <<>>
    /\ stored = None
    /\ enc' = [enc EXCEPT ![i] = NewEncryptor(key).e]
    /\ UNCHANGED <<stored, dec, hashVars, routeVars, tokenVars, orgVars, accountVars, earlier>>

EncryptCall(plaintext, r) ==
    /\ enc[Sealer] # <<>>
    /\ stored = None
    /\ LET res == Encrypt(enc[Sealer], plaintext, r)
       IN  /\ res.err = Nil
           /\ stored' = [text |-> res.out, sealed |-> res.out,
                         plaintext |-> plaintext, key |-> enc[Sealer]]
    /\ dec' = None
    /\ UNCHANGED <<enc, hashVars, routeVars, tokenVars, orgVars, accountVars, earlier>>

\* Change k of a byte b: one of its eight bits flipped, or the byte replaced
\* by a character the decoder treats apart, the padding or a line end.
Changes == 0..10
ChangedTo(b, k) ==
    IF k < 8 THEN FlipBit(b, k)
    ELSE IF k = 8 THEN PadChar
    ELSE IF k = 9 THEN NewLine
    ELSE CarriageReturn

\* One byte of the sealed secret at rest is changed.
Tamper(pos, k) ==
    /\ stored # None
    /\ dec = None
    /\ stored.text = stored.sealed
    /\ pos \in 1..Len(stored.text)
    /\ ChangedTo(stored.text[pos], k) # stored.text[pos]
    /\ stored' = [stored EXCEPT !.text[pos] = ChangedTo(stored.text[pos], k)]
    /\ UNCHANGED <<enc, dec, hashVars, routeVars, tokenVars, orgVars, accountVars, earlier>>

DecryptCall(i) ==
    /\ enc[i] # <<>>
    /\ stored # None
    /\ dec' = [by |-> i, key |-> enc[i], res |-> Decrypt(enc[i], stored.text)]
    /\ UNCHANGED <<enc, stored, hashVars, routeVars, tokenVars, orgVars, accountVars, earlier>>

Discard ==
    /\ stored # None
    /\ stored' = None
    /\ dec' = None
    /\ UNCHANGED <<enc, hashVars, routeVars, tokenVars, orgVars, accountVars, earlier>>

\* The longest sealed text of the model: base64 of nonce, ciphertext and tag.
MaxSealedLen == 4 * ((NonceSize + MaxPlainLen + TagSize + 2) \div 3)

InitCrypto ==
    /\ hp = None
    /\ cp = None
    /\ now = 0
    /\ jwtSecret = ""
    /\ tok = None
    /\ tv = None
    /\ enc = [i \in Instances |-> <<>>]
    /\ stored = None
    /\ dec = None
    /\ orgKey = <<>>
    /\ orgs = <<>>
    /\ orgCall = None
    /\ accounts = <<>>
    /\ activity = <<>>
    /\ earlier = <<>>
    /\ emails = <<>>
    /\ reqs = <<>>

NextCrypto ==
    \/ \E i \in Instances, key \in Keys \cup BadKeys : NewEncryptorCall(i, key)
    \/ \E plaintext \in Plaintexts, r \in RandNonces : EncryptCall(plaintext, r)
    \/ \E pos \in 1..MaxSealedLen, k \in Changes : Tamper(pos, k)
    \/ \E i \in Instances : DecryptCall(i)
    \/ Discard

SpecCrypto == InitCrypto /\ [][NextCrypto]_vars

(***************************************************************************)
(* Properties of the encryptor.                                            *)
(***************************************************************************)
\* The sealed secret at rest is as Encrypt returned it.
Untampered == stored # None /\ stored.text = stored.sealed

\* Decrypt has run on the secret at rest under the key it was sealed with.
OpenedWithSealingKey == stored # None /\ dec # None /\ dec.key = stored.key

\* C8: for every valid key and every string x, Decrypt of what Encrypt(x)
\* returned gives x and no error, on the sealing instance and on any other
\* instance constructed from the same key.
DecryptOfEncrypt ==
    (Untampered /\ OpenedWithSealingKey)
        => dec.res = [out |-> stored.plaintext, err |-> Nil]

\* Another instance, built from the same key, has opened a non-empty secret.
DecryptOfEncryptWitness ==
    /\ Untampered
    /\ OpenedWithSealingKey
    /\ dec.by # Sealer
    /\ stored.plaintext # <<>>
    /\ dec.res.out = stored.plaintext

\* C9 as stated: after any single byte of the string Encrypt returned is
\* changed, Decrypt fails with the authentication failure error and returns
\* the empty string.
TamperedFailsAuthentication ==
    (~Untampered /\ OpenedWithSealingKey)
        => dec.res = [out |-> <<>>, err |-> ErrAuthenticate]

\* C9 as amended: after one byte of the string Encrypt returned is changed,
\* Decrypt either fails with the decoding error or the authentication
\* failure error and returns the empty string, or, when the changed string
\* still decodes to the very bytes that were sealed, returns x; it never
\* returns any other plaintext.
TamperedFailsOrSameBytes ==
    (~Untampered /\ OpenedWithSealingKey)
        => \/ /\ dec.res.err \in {ErrDecodeBase64, ErrAuthenticate}
              /\ dec.res.out = <<>>
           \/ /\ dec.res = [out |-> stored.plaintext, err |-> Nil]
              /\ StdDecode(stored.text) = StdDecode(stored.sealed)

\* A changed byte was caught by the tag of a non-empty secret.
TamperedWitness ==
    /\ ~Untampered
    /\ OpenedWithSealingKey
    /\ stored.plaintext # <<>>
    /\ dec.res.err = ErrAuthenticate

\* C10: Decrypt under a valid key other than the one Encrypt ran under
\* returns an error and the empty string, and whenever Decrypt returns an
\* error it returns the empty string.
DecryptFailsClosed ==
    dec # None =>
        /\ (Untampered /\ dec.key # stored.key)
              => (dec.res.err # Nil /\ dec.res.out = <<>>)
        /\ dec.res.err # Nil => dec.res.out = <<>>

\* A non-empty secret was refused to an instance holding another key.
WrongKeyWitness ==
    /\ Untampered
    /\ dec # None
    /\ dec.key # stored.key
    /\ stored.plaintext # <<>>
    /\ dec.res = [out |-> <<>>, err |-> ErrAuthenticate]

(***************************************************************************)
(* A sequence of Encrypt calls on one instance: the caller keeps what the  *)
(* calls returned, the earlier results in earlier and the last one in      *)
(* stored.                                                                 *)
(***************************************************************************)
KeepSealed ==
    /\ stored # None
    /\ Len(earlier) < MaxEarlier
    /\ earlier' = Append(earlier, stored)
    /\ stored' = None
    /\ dec' = None
    /\ UNCHANGED <<enc, hashVars, routeVars, tokenVars, orgVars, accountVars>>

NextSeals ==
    \/ \E key \in Keys \cup BadKeys : NewEncryptorCall(Sealer, key)
    \/ \E plaintext \in Plaintexts, r \in RandNonces : EncryptCall(plaintext, r)
    \/ KeepSealed

SpecSeals == InitCrypto /\ [][NextSeals]_vars

\* The Encrypt calls so far, in order, each with its plaintext and the key it
\* ran under.
SealsReturned == earlier \o (IF stored # None THEN <<stored>> ELSE <<>>)

\* The nonce in front of a sealed value.
NonceField(sealed) == SubSeq(StdDecode(sealed).val, 1, NonceSize)

BytesWritten == {0, 255}

CallerWritesKey(i, pos, b) ==
    /\ enc[i] \in Keys
    /\ pos \in {1, Len(enc[i])}
    /\ enc[i][pos] # b
    /\ enc' = [enc EXCEPT ![i][pos] = b]
    /\ UNCHANGED <<stored, dec, hashVars, routeVars, tokenVars, orgVars, accountVars,
                   earlier>>

NextKeySlice ==
    \/ \E i \in Instances, key \in Keys \cup BadKeys : NewEncryptorCall(i, key)
    \/ \E plaintext \in Plaintexts, r \in RandNonces : EncryptCall(plaintext, r)
    \/ \E i \in Instances : DecryptCall(i)
    \/ Discard
    \/ \E i \in Instances, pos \in 1..keyLen, b \in BytesWritten :
          CallerWritesKey(i, pos, b)

SpecKeySlice == InitCrypto /\ [][NextKeySlice]_vars

\* C20: the key an Encryptor holds stays the one it was constructed with,
\* also when the caller writes to the slice it passed to NewEncryptor: the
\* sealing instance's key is the key the value at rest was sealed under, and
\* whenever the sealing instance opens that value it gets the plaintext back.
KeyHeldIsImmutable ==
    stored # None =>
        /\ enc[Sealer] = stored.key
        /\ (dec # None /\ dec.by = Sealer)
              => dec.res = [out |-> stored.plaintext, err |-> Nil]

(***************************************************************************)
(* NewEncryptor on keys of every length: the call and what it returned are *)
(* kept in earlier, the instance it returned in enc.                       *)
(***************************************************************************)
KeysOfAnyLength == {KeyOf(n, seed) : n \in 0..MaxKeyLen, seed \in 0..MaxKeySeed}

ConstructCall(i, key) ==
    /\ enc[i] = <<>>
    /\ enc' = [enc EXCEPT ![i] = NewEncryptor(key).e]
    /\ earlier' = <<[by |-> i, key |-> key, res |-> NewEncryptor(key)]>>
    /\ UNCHANGED <<stored, dec, hashVars, routeVars, tokenVars, orgVars, accountVars>>

NextConstruct == \E i \in Instances, key \in KeysOfAnyLength : ConstructCall(i, key)

SpecConstruct == InitCrypto /\ [][NextConstruct]_vars

\* C22: NewEncryptor returns an Encryptor holding the key, and no error,
\* exactly when the key is 16, 24 or 32 bytes long; for every other length
\* it returns no Encryptor and the invalid-key-size error.
EncryptorOnlyForAESKeySizes ==
    earlier # <<>> =>
        LET call == earlier[1]
        IN  /\ Len(call.key) \in {16, 24, 32}
                 => call.res = [e |-> call.key, err |-> Nil]
            /\ Len(call.key) \notin {16, 24, 32}
                 => call.res = [e |-> <<>>, err |-> ErrInvalidKeySize]
            /\ enc[call.by] = call.res.e

\* NewEncryptor was given a key of 10 bytes and returned the error.
KeySizeWitness ==
    /\ earlier # <<>>
    /\ Len(earlier[1].key) = 10
    /\ earlier[1].res.err = ErrInvalidKeySize
    /\ enc[earlier[1].by] = <<>>

(***************************************************************************)
(* The organization routes: the handlers, the organization service and the *)
(* repository over the organizations table.  Deleting is soft: a deleted   *)
(* row stays in the table and no query sees it.  A handler is entered with *)
(* the account ID of the context; what reqs holds of the request is left   *)
(* to the step that enters the handler.                                    *)
(***************************************************************************)
ErrRecordNotFound == "record not found"

\* The bodies UpsertOrganization binds: UpsertOrganizationRequest.
OrgRequests ==
    [Name : {"org"}, Description : {"about"}, ClientID : {"client"},
     TenantID : {"tenant"}, ClientSecret : Plaintexts]

\* What msGraphApiService.CheckAuthorized may return.
GraphOutcomes == {[ok |-> TRUE, err |-> Nil], [ok |-> FALSE, err |-> Nil],
                  [ok |-> FALSE, err |-> "graph"]}

\* OrganizationService.EncryptClientSecret(clientSecret)
EncryptClientSecret(key, clientSecret) == [out |-> clientSecret, err |-> Nil]

\* OrganizationService.DecryptClientSecret(clientSecret)
DecryptClientSecret(key, clientSecret) == [out |-> clientSecret, err |-> Nil]

\* The rows a query sees.
Live(rows) == {i \in 1..Len(rows) : ~rows[i].Deleted}

\* db.Where("owner_id = ?", ownerID).First(...): the ID of the row found,
\* the one of least ID, or 0.
FirstByOwner(rows, ownerID) ==
    LET found == {i \in Live(rows) : rows[i].OwnerID = ownerID}
    IN  IF found = {} THEN 0
        ELSE CHOOSE i \in found : \A k \in found : i <= k

\* OrganizationRepo.UpsertOrganization(organization): First reads the row
\* found into organization, and Save writes organization back.
RepoUpsertOrganization(rows, organization) ==
    LET id == FirstByOwner(rows, organization.OwnerID)
    IN  IF id = 0
        THEN LET created == [organization EXCEPT !.ID = Len(rows) + 1]
             IN  [rows |-> Append(rows, created), org |-> created, err |-> Nil]
        ELSE [rows |-> [rows EXCEPT ![id] = rows[id]], org |-> rows[id],
              err |-> Nil]

\* OrganizationRepo.GetOrganizationByOwnerID(ownerID)
GetOrganizationByOwnerID(rows, ownerID) ==
    LET id == FirstByOwner(rows, ownerID)
    IN  IF id = 0 THEN [org |-> None, err |-> ErrRecordNotFound]
        ELSE [org |-> rows[id], err |-> Nil]

\* OrganizationRepo.DeleteOrganizationByOwnerID(ownerID):
\* db.Delete(&Organization{}, ownerID) deletes by primary key.
DeleteOrganizationByOwnerID(rows, ownerID) ==
    [i \in 1..Len(rows) |->
        IF rows[i].ID = ownerID THEN [rows[i] EXCEPT !.Deleted = TRUE]
        ELSE rows[i]]

\* OrganizationHandler.UpsertOrganization for the bound body req of the
\* account accountID (0: none in the context).
UpsertOrganizationCall(accountID, req, graph) ==
    /\ orgKey # <<>>
    /\ IF accountID = 0
       THEN /\ orgCall' = [op |-> "upsert", accountID |-> accountID,
                           req |-> req, handed |-> None, status |-> 500]
            /\ orgs' = orgs
       ELSE LET clientSecret == EncryptClientSecret(orgKey, req.ClientSecret)
                newOrg == [ID |-> 0, OwnerID |-> accountID, Name |-> req.Name,
                           Description |-> req.Description,
                           IsAuthorized |-> FALSE, ClientID |-> req.ClientID,
                           TenantID |-> req.TenantID,
                           ClientSecret |-> clientSecret.out,
                           Deleted |-> FALSE]
                saved == RepoUpsertOrganization(orgs, newOrg)
            IN  /\ FirstByOwner(orgs, accountID) = 0 => Len(orgs) < MaxOrgs
                /\ orgs' = saved.rows
                /\ orgCall' = [op |-> "upsert", accountID |-> accountID,
                               req |-> req, handed |-> newOrg,
                               status |-> IF graph.err # Nil THEN 500 ELSE 200]
    /\ UNCHANGED <<orgKey, hashVars, emails, tokenVars, cryptoVars, accountVars, earlier>>

\* OrganizationHandler.GetOrganization
GetOrganizationCall(accountID) ==
    /\ orgKey # <<>>
    /\ LET found == GetOrganizationByOwnerID(orgs, accountID)
       IN  orgCall' = [op |-> "get", accountID |-> accountID,
                       org |-> IF accountID = 0 THEN None ELSE found.org,
                       status |-> IF accountID = 0 \/ found.err # Nil
                                  THEN 500 ELSE 200]
    /\ UNCHANGED <<orgKey, orgs, hashVars, emails, tokenVars, cryptoVars, accountVars, earlier>>

\* OrganizationHandler.DeleteOrganization
DeleteOrganizationCall(accountID) ==
    /\ orgKey # <<>>
    /\ orgs' = IF accountID = 0 THEN orgs
               ELSE DeleteOrganizationByOwnerID(orgs, accountID)
    /\ orgCall' = [op |-> "delete", accountID |-> accountID,
                   status |-> IF accountID = 0 THEN 500 ELSE 200]
    /\ UNCHANGED <<orgKey, hashVars, emails, tokenVars, cryptoVars, accountVars, earlier>>

\* OrganizationHandler.CheckAuthorization: secret is what the Graph client
\* is given as the client secret.
CheckAuthorizationCall(accountID, graph) ==
    /\ orgKey # <<>>
    /\ LET found == GetOrganizationByOwnerID(orgs, accountID)
       IN  IF accountID = 0 \/ found.err # Nil
           THEN orgCall' = [op |-> "check", accountID |-> accountID,
                            secret |-> None, status |-> 500]
           ELSE LET clientSecret ==
                        DecryptClientSecret(orgKey, found.org.ClientSecret)
                IN  orgCall' = [op |-> "check", accountID |-> accountID,
                                secret |-> clientSecret.out,
                                status |-> IF graph.err # Nil THEN 500 ELSE 200]
    /\ UNCHANGED <<orgKey, orgs, hashVars, emails, tokenVars, cryptoVars, accountVars, earlier>>

\* NewOrganizationService panics on a key NewEncryptor refuses, so the
\* routes are served under a key it accepts.
InitOrg ==
    /\ hp = None
    /\ cp = None
    /\ now = 0
    /\ jwtSecret = ""
    /\ tok = None
    /\ tv = None
    /\ enc = [i \in Instances |-> <<>>]
    /\ stored = None
    /\ dec = None
    /\ orgKey \in {key \in Keys \cup BadKeys : NewEncryptor(key).err = Nil}
    /\ orgs = <<>>
    /\ orgCall = None
    /\ accounts = <<>>
    /\ activity = <<>>
    /\ earlier = <<>>
    /\ emails = <<>>
    /\ reqs = <<>>

NextOrg ==
    \/ \E accountID \in 0..MaxAccountID, req \in OrgRequests,
          graph \in GraphOutcomes :
          UpsertOrganizationCall(accountID, req, graph) /\ UNCHANGED reqs
    \/ \E accountID \in 0..MaxAccountID :
          GetOrganizationCall(accountID) /\ UNCHANGED reqs
    \/ \E accountID \in 0..MaxAccountID :
          DeleteOrganizationCall(accountID) /\ UNCHANGED reqs
    \/ \E accountID \in 0..MaxAccountID, graph \in GraphOutcomes :
          CheckAuthorizationCall(accountID, graph) /\ UNCHANGED reqs

SpecOrg == InitOrg /\ [][NextOrg]_vars

\* UpsertOrganization has handed an organization to the repository.
UpsertReachedRepository ==
    orgCall # None /\ orgCall.op = "upsert" /\ orgCall.handed # None

\* C3: the ClientSecret UpsertOrganization hands to the repository is not
\* the submitted secret but a sealed form of it, one that Decrypt under the
\* service's key opens to the submitted secret, and DecryptClientSecret of
\* the secret stored for the owner returns the submitted secret.
ClientSecretSealedAtRest ==
    UpsertReachedRepository =>
        /\ orgCall.handed.ClientSecret # orgCall.req.ClientSecret
        /\ Decrypt(orgKey, orgCall.handed.ClientSecret)
              = [out |-> orgCall.req.ClientSecret, err |-> Nil]
        /\ DecryptClientSecret(orgKey,
              GetOrganizationByOwnerID(orgs, orgCall.accountID).org.ClientSecret)
              = [out |-> orgCall.req.ClientSecret, err |-> Nil]

\* C26: DeleteOrganization by the account A, answered 200, removes the
\* organization whose owner is A and leaves every organization of another
\* owner as it was, whatever IDs the rows have.
DeleteRemovesOwnersOrganization ==
    [][(orgCall' # None /\ orgCall'.op = "delete" /\ orgCall'.status = 200)
          => /\ FirstByOwner(orgs', orgCall'.accountID) = 0
             /\ \A i \in 1..Len(orgs) :
                   orgs[i].OwnerID # orgCall'.accountID => orgs'[i] = orgs[i]]_vars

\* C27: after UpsertOrganization has succeeded for an owner who had an
\* organization, the stored organization has the record ID it had and the
\* name, description, client ID, tenant ID and client secret the handler
\* made of the new request; for an owner who had none, exactly one
\* organization is created, with those values.
UpsertStoresRequest ==
    [][(orgCall' # None /\ orgCall'.op = "upsert" /\ orgCall'.status = 200)
          => LET before == FirstByOwner(orgs, orgCall'.accountID)
                 after == FirstByOwner(orgs', orgCall'.accountID)
                 handed == orgCall'.handed
             IN  /\ after # 0
                 /\ orgs'[after].Name = handed.Name
                 /\ orgs'[after].Description = handed.Description
                 /\ orgs'[after].ClientID = handed.ClientID
                 /\ orgs'[after].TenantID = handed.TenantID
                 /\ orgs'[after].ClientSecret = handed.ClientSecret
                 /\ before # 0 => (/\ orgs'[after].ID = orgs[before].ID
                                    /\ Len(orgs') = Len(orgs))
                 /\ before = 0 => Len(orgs') = Len(orgs) + 1]_vars

(***************************************************************************)
(* The account routes with what they write to the client.  Each handler is *)
(* one step, from binding the body to its last response; reqs holds the    *)
(* request served last: its route, its body, the service and repository    *)
(* calls the handler made, in order, and the responses it wrote with       *)
(* c.JSON, in order.  The client keeps the token it was sent last, in tok, *)
(* and the owner of each account the password last stored for it, in       *)
(* earlier.  The clock stands still and the secret stays as configured.    *)
(***************************************************************************)
\* The email addresses requests carry.
Emails == {"a@x.io", "b@x.io"}

\* The passwords requests ask to have stored: the empty one as well.
NewPasswords == RequestPasswords \cup {<<>>}

\* What the database and the mailer do while a request is served.
Outcomes == {"ok", "read fails", "write fails", "mail fails"}

ErrConnection == "connection refused"
ErrDuplicatedKey == "duplicate key value violates unique constraint"

\* c.JSON(status, body)
JSON(status, body) == [status |-> status, body |-> body]

InternalServerError == JSON(500, [error |-> "internal server error"])

\* gin's Recovery after a panic in the handler
Recovered == JSON(500, [recovered |-> TRUE])

\* HashPassword of a password a request asks to have stored.
HashedOf(password) ==
    IF password \in RequestPasswords THEN Hashed[password]
    ELSE HashPassword(password, RequestSalt)

\* A faulty variant: only the first row of the table is looked at.
GetAccountByEmailFirstRow(email, env) ==
    IF env = "read fails" THEN [id |-> 0, err |-> ErrConnection]
    ELSE IF Len(emails) = 0 \/ emails[1] # email
    THEN [id |-> 0, err |-> ErrRecordNotFound]
    ELSE [id |-> 1, err |-> Nil]

\* AccountRepo.GetAccountByEmail(ctx, email): the ID of the row found, or 0
\* with the error.
GetAccountByEmail(email, env) ==
    LET found == {id \in DOMAIN emails : emails[id] = email}
    IN  IF env = "read fails" THEN [id |-> 0, err |-> ErrConnection]
        ELSE IF found = {} THEN [id |-> 0, err |-> ErrRecordNotFound]
        ELSE [id |-> CHOOSE id \in found : \A k \in found : id <= k,
              err |-> Nil]

\* AccountRepo.GetAccountByID(ctx, id)
GetAccountByID(id, env) ==
    IF env = "read fails" THEN [id |-> 0, err |-> ErrConnection]
    ELSE IF id \notin DOMAIN emails THEN [id |-> 0, err |-> ErrRecordNotFound]
    ELSE [id |-> id, err |-> Nil]

\* A faulty variant: the email column without its unique constraint.
CreateAccountNotUnique(email, env) ==
    IF env = "write fails" THEN [id |-> 0, err |-> ErrConnection]
    ELSE [id |-> Len(emails) + 1, err |-> Nil]

\* AccountRepo.CreateAccount(ctx, account): the ID of the row created.  The
\* email column is unique.
CreateAccount(email, env) ==
    IF env = "write fails" THEN [id |-> 0, err |-> ErrConnection]
    ELSE IF \E id \in DOMAIN emails : emails[id] = email
    THEN [id |-> 0, err |-> ErrDuplicatedKey]
    ELSE [id |-> Len(emails) + 1, err |-> Nil]

\* AccountRepo.UpdateAccount(ctx, account)
UpdateAccount(id, env) ==
    IF env = "write fails" THEN [id |-> 0, err |-> ErrConnection]
    ELSE [id |-> id, err |-> Nil]

\* The request served and what came of it.
Served(route, body, env, calls, written) ==
    <<[route |-> route, body |-> body, env |-> env, calls |-> calls,
       written |-> written]>>

\* The token sent to the client with a response.
Sent(kind, id, res) ==
    [kind |-> kind, id |-> id, secret |-> jwtSecret, returnedAt |-> now,
     res |-> res]

\* The row of the account is written with the password's hash.
Store(id, password) ==
    /\ accounts' = [i \in 1..(IF id > Len(accounts) THEN id ELSE Len(accounts))
                      |-> IF i = id THEN HashedOf(password).out ELSE accounts[i]]
    /\ earlier' = [i \in 1..(IF id > Len(earlier) THEN id ELSE Len(earlier))
                      |-> IF i = id THEN password ELSE earlier[i]]

\* RegisterAccount for the bound body.
RegisterAccountRoute(email, password, env) ==
    /\ UNCHANGED <<now, jwtSecret, tv, hashVars, cryptoVars, orgVars>>
    /\ LET body == [email |-> email, password |-> password]
           existingAcc == GetAccountByEmail(email, env)
           hashedPassword == HashedOf(password)
           acc == CreateAccount(email, env)
           token == GenerateAuthToken(acc.id, now, now, jwtSecret)
       IN  IF existingAcc.err = Nil
           THEN /\ reqs' = Served("register", body, env, <<"GetAccountByEmail">>,
                        <<JSON(400, [error |-> "account already exists"])>>)
                /\ UNCHANGED <<tok, accountVars, emails, earlier>>
           ELSE IF existingAcc.err # ErrRecordNotFound
           THEN /\ reqs' = Served("register", body, env, <<"GetAccountByEmail">>,
                        <<InternalServerError>>)
                /\ UNCHANGED <<tok, accountVars, emails, earlier>>
           ELSE IF hashedPassword.err # Nil
           THEN /\ reqs' = Served("register", body, env,
                        <<"GetAccountByEmail", "HashPassword">>,
                        <<InternalServerError>>)
                /\ UNCHANGED <<tok, accountVars, emails, earlier>>
           ELSE IF acc.err # Nil
           THEN /\ reqs' = Served("register", body, env,
                        <<"GetAccountByEmail", "HashPassword", "CreateAccount">>,
                        <<JSON(500, [error |-> acc.err])>>)
                /\ UNCHANGED <<tok, accountVars, emails, earlier>>
           ELSE IF token.err # Nil
           THEN /\ emails' = Append(emails, email)
                /\ Store(acc.id, password)
                /\ reqs' = Served("register", body, env,
                        <<"GetAccountByEmail", "HashPassword", "CreateAccount",
                          "GenerateAuthToken">>,
                        <<JSON(500, [error |-> token.err])>>)
                /\ UNCHANGED <<tok, activity>>
           ELSE /\ emails' = Append(emails, email)
                /\ Store(acc.id, password)
                /\ activity' = LogAccountActivity(acc.id, "register")
                /\ tok' = Sent("auth", acc.id, token)
                /\ reqs' = Served("register", body, env,
                        <<"GetAccountByEmail", "HashPassword", "CreateAccount",
                          "GenerateAuthToken", "LogAccountActivity">>,
                        <<JSON(200, [id |-> acc.id, email |-> email,
                                     token |-> token.out])>>)

\* LoginAccount for the bound body.
LoginAccountRoute(email, password, env) ==
    /\ UNCHANGED <<now, jwtSecret, tv, hashVars, cryptoVars, orgVars,
                   accounts, emails, earlier>>
    /\ LET body == [email |-> email, password |-> password]
           acc == GetAccountByEmail(email, env)
           cmp == Compared[password, accounts[acc.id]]
           token == GenerateAuthToken(acc.id, now, now, jwtSecret)
       IN  IF acc.err # Nil
           THEN /\ reqs' = Served("login", body, env, <<"GetAccountByEmail">>,
                        (IF acc.err = ErrRecordNotFound
                         THEN <<JSON(400, [error |-> "invalid credentials"])>>
                         ELSE <<>>) \o <<InternalServerError>>)
                /\ UNCHANGED <<tok, activity>>
           ELSE IF cmp.panic
           THEN /\ reqs' = Served("login", body, env,
                        <<"GetAccountByEmail", "ComparePassword">>,
                        <<Recovered>>)
                /\ UNCHANGED <<tok, activity>>
           ELSE IF cmp.err # Nil
           THEN /\ reqs' = Served("login", body, env,
                        <<"GetAccountByEmail", "ComparePassword">>,
                        <<InternalServerError>>)
                /\ UNCHANGED <<tok, activity>>
           ELSE IF ~cmp.ok
           THEN /\ reqs' = Served("login", body, env,
                        <<"GetAccountByEmail", "ComparePassword">>,
                        <<JSON(400, [error |-> "invalid credentials"])>>)
                /\ UNCHANGED <<tok, activity>>
           ELSE IF token.err # Nil
           THEN /\ reqs' = Served("login", body, env,
                        <<"GetAccountByEmail", "ComparePassword",
                          "GenerateAuthToken">>,
                        <<JSON(500, [error |-> "failed to generate token"])>>)
                /\ UNCHANGED <<tok, activity>>
           ELSE /\ activity' = LogAccountActivity(acc.id, "login")
                /\ tok' = Sent("auth", acc.id, token)
                /\ reqs' = Served("login", body, env,
                        <<"GetAccountByEmail", "ComparePassword",
                          "GenerateAuthToken", "LogAccountActivity">>,
                        <<JSON(200, [token |-> token.out])>>)

\* ForgotPassword for the bound body: the token goes to the account's owner
\* by mail.
ForgotPasswordRoute(email, env) ==
    /\ UNCHANGED <<now, jwtSecret, tv, hashVars, cryptoVars, orgVars,
                   accounts, emails, earlier>>
    /\ LET body == [email |-> email]
           acc == GetAccountByEmail(email, env)
           token == GeneratePasswordResetToken(acc.id, now, now, jwtSecret)
       IN  IF acc.err # Nil
           THEN /\ reqs' = Served("forgot-password", body, env,
                        <<"GetAccountByEmail">>, <<InternalServerError>>)
                /\ UNCHANGED <<tok, activity>>
           ELSE IF token.err # Nil
           THEN /\ reqs' = Served("forgot-password", body, env,
                        <<"GetAccountByEmail", "GeneratePasswordResetToken">>,
                        <<JSON(500, [error |-> "failed to generate token"])>>)
                /\ UNCHANGED <<tok, activity>>
           ELSE IF env = "mail fails"
           THEN /\ reqs' = Served("forgot-password", body, env,
                        <<"GetAccountByEmail", "GeneratePasswordResetToken",
                          "SendPasswordResetEmail">>,
                        <<JSON(500, [error |->
                                      "failed to send password reset email"])>>)
                /\ UNCHANGED <<tok, activity>>
           ELSE /\ activity' = LogAccountActivity(acc.id, "forgot_password")
                /\ tok' = Sent("reset", acc.id, token)
                /\ reqs' = Served("forgot-password", body, env,
                        <<"GetAccountByEmail", "GeneratePasswordResetToken",
                          "SendPasswordResetEmail", "LogAccountActivity">>,
                        <<JSON(200, [message |-> "password reset email sent"])>>)

\* ResetPassword for the bound body.
ResetPasswordRoute(token, password, env) ==
    /\ UNCHANGED <<now, jwtSecret, tok, tv, hashVars, cryptoVars, orgVars,
                   emails>>
    /\ LET body == [token |-> token, password |-> password]
           accountID == ValidatePasswordResetToken(token, jwtSecret, now)
           acc == GetAccountByID(accountID.id, env)
           hashedPassword == HashedOf(password)
           updated == UpdateAccount(acc.id, env)
       IN  IF accountID.panic
           THEN /\ reqs' = Served("reset-password", body, env,
                        <<"ValidatePasswordResetToken">>, <<Recovered>>)
                /\ UNCHANGED <<accountVars, earlier>>
           ELSE IF accountID.err # Nil
           THEN /\ reqs' = Served("reset-password", body, env,
                        <<"ValidatePasswordResetToken">>,
                        <<InternalServerError>>)
                /\ UNCHANGED <<accountVars, earlier>>
           ELSE IF acc.err # Nil
           THEN /\ reqs' = Served("reset-password", body, env,
                        <<"ValidatePasswordResetToken", "GetAccountByID">>,
                        <<InternalServerError>>)
                /\ UNCHANGED <<accountVars, earlier>>
           ELSE IF hashedPassword.err # Nil
           THEN /\ reqs' = Served("reset-password", body, env,
                        <<"ValidatePasswordResetToken", "GetAccountByID",
                          "HashPassword">>,
                        <<InternalServerError>>)
                /\ UNCHANGED <<accountVars, earlier>>
           ELSE IF updated.err # Nil
           THEN /\ reqs' = Served("reset-password", body, env,
                        <<"ValidatePasswordResetToken", "GetAccountByID",
                          "HashPassword", "UpdateAccount">>,
                        <<InternalServerError>>)
                /\ UNCHANGED <<accountVars, earlier>>
           ELSE /\ Store(acc.id, password)
                /\ activity' = LogAccountActivity(acc.id, "reset_password")
                /\ reqs' = Served("reset-password", body, env,
                        <<"ValidatePasswordResetToken", "GetAccountByID",
                          "HashPassword", "UpdateAccount",
                          "LogAccountActivity">>,
                        <<JSON(200, [message |-> "password reset successful"])>>)

Unauthorized == JSON(401, [error |-> "Unauthorized"])

\* A faulty variant: a token the validator refuses is let through with the
\* account ID 0.
AuthMiddlewareLetsThrough(header) ==
    LET accountID == ValidateAuthToken(header, jwtSecret, now)
    IN  IF header = EmptyToken
        THEN [next |-> FALSE, accountID |-> 0, calls |-> <<>>,
              written |-> <<Unauthorized>>]
        ELSE [next |-> TRUE, accountID |-> accountID.id,
              calls |-> <<"ValidateAuthToken">>, written |-> <<>>]

\* AuthMiddleware on the Authorization header: whether the handler is
\* reached with c.Next(), the account ID set in the context, and what is
\* written.
AuthMiddlewareOn(header) ==
    LET accountID == ValidateAuthToken(header, jwtSecret, now)
    IN  IF header = EmptyToken
        THEN [next |-> FALSE, accountID |-> 0, calls |-> <<>>,
              written |-> <<Unauthorized>>]
        ELSE IF accountID.err # Nil
        THEN [next |-> FALSE, accountID |-> 0,
              calls |-> <<"ValidateAuthToken">>, written |-> <<Unauthorized>>]
        ELSE [next |-> TRUE, accountID |-> accountID.id,
              calls |-> <<"ValidateAuthToken">>, written |-> <<>>]

\* The request to a route behind the middleware and what came of it: ran
\* tells whether the handler was entered, and accountID is what it read from
\* the context.
ServedBehind(route, header, body, env, m, calls, written) ==
    <<[route |-> route, header |-> header, body |-> body, env |-> env,
       ran |-> m.next, accountID |-> IF m.next THEN m.accountID ELSE 0,
       calls |-> m.calls \o calls, written |-> m.written \o written]>>

\* ChangePassword behind the middleware, for the bound body.
ChangePasswordRoute(header, oldPassword, newPassword, env) ==
    /\ UNCHANGED <<now, jwtSecret, tok, tv, hashVars, cryptoVars, orgVars,
                   emails>>
    /\ LET body == [old_password |-> oldPassword, new_password |-> newPassword]
           m == AuthMiddlewareOn(header)
           accountID == m.accountID
           acc == GetAccountByID(accountID, env)
           cmp == Compared[oldPassword, accounts[acc.id]]
           hashedPassword == HashedOf(newPassword)
           updated == UpdateAccount(acc.id, env)
       IN  IF ~m.next
           THEN /\ reqs' = ServedBehind("change-password", header, body, env, m,
                        <<>>, <<>>)
                /\ UNCHANGED <<accountVars, earlier>>
           ELSE IF accountID = 0
           THEN /\ reqs' = ServedBehind("change-password", header, body, env, m,
                        <<>>, <<InternalServerError>>)
                /\ UNCHANGED <<accountVars, earlier>>
           ELSE IF acc.err # Nil
           THEN /\ reqs' = ServedBehind("change-password", header, body, env, m,
                        <<"GetAccountByID">>, <<InternalServerError>>)
                /\ UNCHANGED <<accountVars, earlier>>
           ELSE IF cmp.panic
           THEN /\ reqs' = ServedBehind("change-password", header, body, env, m,
                        <<"GetAccountByID", "ComparePassword">>,
                        <<Recovered>>)
                /\ UNCHANGED <<accountVars, earlier>>
           ELSE IF cmp.err # Nil
           THEN /\ reqs' = ServedBehind("change-password", header, body, env, m,
                        <<"GetAccountByID", "ComparePassword">>,
                        <<InternalServerError>>)
                /\ UNCHANGED <<accountVars, earlier>>
           ELSE IF ~cmp.ok
           THEN /\ reqs' = ServedBehind("change-password", header, body, env, m,
                        <<"GetAccountByID", "ComparePassword">>,
                        <<JSON(400, [error |-> "invalid old password"])>>)
                /\ UNCHANGED <<accountVars, earlier>>
           ELSE IF hashedPassword.err # Nil
           THEN /\ reqs' = ServedBehind("change-password", header, body, env, m,
                        <<"GetAccountByID", "ComparePassword", "HashPassword">>,
                        <<InternalServerError>>)
                /\ UNCHANGED <<accountVars, earlier>>
           ELSE IF updated.err # Nil
           THEN /\ reqs' = ServedBehind("change-password", header, body, env, m,
                        <<"GetAccountByID", "ComparePassword", "HashPassword",
                          "UpdateAccount">>,
                        <<InternalServerError>>)
                /\ UNCHANGED <<accountVars, earlier>>
           ELSE /\ Store(acc.id, newPassword)
                /\ activity' = LogAccountActivity(acc.id, "change_password")
                /\ reqs' = ServedBehind("change-password", header, body, env, m,
                        <<"GetAccountByID", "ComparePassword", "HashPassword",
                          "UpdateAccount", "LogAccountActivity">>,
                        <<JSON(200, [message |->
                                      "password changed successfully"])>>)

\* The Authorization header and the token field of the client's requests:
\* the token it was sent last, if any.
Presented == IF tok = None THEN EmptyToken ELSE tok.res.out

InitRoutes ==
    /\ hp = None
    /\ cp = None
    /\ now = 0
    /\ jwtSecret = "secret-1"
    /\ tok = None
    /\ tv = None
    /\ enc = [i \in Instances |-> <<>>]
    /\ stored = None
    /\ dec = None
    /\ orgKey = <<>>
    /\ orgs = <<>>
    /\ orgCall = None
    /\ accounts = <<>>
    /\ activity = <<>>
    /\ earlier = <<>>
    /\ emails = <<>>
    /\ reqs = <<>>

NextRoutes ==
    \/ \E email \in Emails, password \in NewPasswords, env \in Outcomes :
          RegisterAccountRoute(email, password, env)
    \/ \E email \in Emails, password \in RequestPasswords, env \in Outcomes :
          LoginAccountRoute(email, password, env)
    \/ \E email \in Emails, env \in Outcomes : ForgotPasswordRoute(email, env)
    \/ \E password \in NewPasswords, env \in Outcomes :
          ResetPasswordRoute(Presented, password, env)
    \/ \E oldPassword \in RequestPasswords, newPassword \in NewPasswords,
          env \in Outcomes :
          ChangePasswordRoute(Presented, oldPassword, newPassword, env)

SpecRoutes == InitRoutes /\ [][NextRoutes]_vars

\* C24: RegisterAccount for an email that already has an account, the
\* lookup working, answers 400 "account already exists" and calls none of
\* HashPassword, CreateAccount, GenerateAuthToken and LogAccountActivity: the
\* accounts and their activity stay as they are and no token is sent.
ExistingEmailRefused ==
    [][(/\ reqs'[1].route = "register"
        /\ reqs'[1].env # "read fails"
        /\ \E id \in DOMAIN emails : emails[id] = reqs'[1].body.email)
          => /\ reqs'[1].written
                   = <<JSON(400, [error |-> "account already exists"])>>
             /\ reqs'[1].calls = <<"GetAccountByEmail">>
             /\ UNCHANGED <<accounts, emails, activity, tok>>]_vars

\* The handler has refused a registration, two accounts existing.
ExistingEmailWitness ==
    /\ reqs # <<>>
    /\ reqs[1].route = "register"
    /\ reqs[1].written = <<JSON(400, [error |-> "account already exists"])>>
    /\ reqs[1].calls = <<"GetAccountByEmail">>
    /\ Len(emails) = 2
    /\ reqs[1].body.email = emails[2]

\* A token was sent in answer to the request.
TokenSent(r) ==
    /\ Len(r.written) = 1
    /\ r.written[1].status = 200
    /\ "token" \in DOMAIN r.written[1].body

\* The request was answered 200 and nothing else.
Succeeded(r) == Len(r.written) = 1 /\ r.written[1].status = 200

\* C28: after any sequence of RegisterAccount, ResetPassword and
\* ChangePassword requests, LoginAccount sends a token only if the password
\* submitted is the one most recently stored for the account of the email,
\* so that the password a successful change or reset has replaced no longer
\* logs in; and a change or reset that fails leaves every stored hash as it
\* was.
LoginOnlyWithStoredPassword ==
    [][/\ (reqs'[1].route = "login" /\ TokenSent(reqs'[1]))
             => LET acc == GetAccountByEmail(reqs'[1].body.email, "ok")
                IN  /\ acc.err = Nil
                    /\ reqs'[1].body.password = earlier[acc.id]
                    /\ tok'.id = acc.id
       /\ (/\ reqs'[1].route \in {"change-password", "reset-password"}
           /\ ~Succeeded(reqs'[1]))
             => accounts' = accounts]_vars

\* A login with the password a change of password has stored was sent a
\* token.
LoginOnlyWithStoredPasswordWitness ==
    /\ reqs # <<>>
    /\ reqs[1].route = "login"
    /\ TokenSent(reqs[1])
    /\ Len(activity) = 2
    /\ activity[2].activity = "change_password"
    /\ accounts[activity[2].accountID] = Hashed[<<98>>].out
    /\ reqs[1].body.password = <<98>>
    /\ emails[activity[2].accountID] = reqs[1].body.email

\* C29: LoginAccount writes exactly one response to a request on every
\* path; for an email that no account has, the lookup working, it is 400
\* "invalid credentials", and no 500 is written after it.
LoginWritesOneResponse ==
    (reqs # <<>> /\ reqs[1].route = "login")
        => /\ Len(reqs[1].written) = 1
           /\ (/\ reqs[1].env # "read fails"
               /\ \A id \in DOMAIN emails : emails[id] # reqs[1].body.email)
                 => reqs[1].written
                        = <<JSON(400, [error |-> "invalid credentials"])>>

(***************************************************************************)
(* The routes registered after rg.Use(AuthMiddleware): a request reaches   *)
(* the handler through the middleware only.  The header of a request is    *)
(* empty, or a token the service has issued to one of the two registered   *)
(* accounts, now or one token lifetime ago, or a token made elsewhere.     *)
(* The clock stands still, the requests to change a password carry an old  *)
(* password that is not the account's, and the owner of account 2 sends no *)
(* request to an organization route.                                       *)
(***************************************************************************)
\* GetProfile behind the middleware.
GetProfileRoute(header, env) ==
    /\ UNCHANGED <<tokenVars, hashVars, cryptoVars, orgVars, accountVars,
                   earlier, emails>>
    /\ LET m == AuthMiddlewareOn(header)
           acc == GetAccountByID(m.accountID, env)
       IN  reqs' =
             IF ~m.next
             THEN ServedBehind("profile", header, None, env, m, <<>>, <<>>)
             ELSE IF m.accountID = 0
             THEN ServedBehind("profile", header, None, env, m, <<>>,
                               <<InternalServerError>>)
             ELSE IF acc.err # Nil
             THEN ServedBehind("profile", header, None, env, m,
                               <<"GetAccountByID">>, <<InternalServerError>>)
             ELSE ServedBehind("profile", header, None, env, m,
                               <<"GetAccountByID">>,
                               <<JSON(200, [id |-> acc.id,
                                            email |-> emails[acc.id]])>>)

\* LogoutAccount behind the middleware.
LogoutAccountRoute(header, env) ==
    /\ UNCHANGED <<tokenVars, hashVars, cryptoVars, orgVars, accounts,
                   earlier, emails>>
    /\ LET m == AuthMiddlewareOn(header)
       IN  IF ~m.next
           THEN /\ reqs' = ServedBehind("logout", header, None, env, m,
                                        <<>>, <<>>)
                /\ UNCHANGED activity
           ELSE IF m.accountID = 0
           THEN /\ reqs' = ServedBehind("logout", header, None, env, m,
                                        <<>>, <<InternalServerError>>)
                /\ UNCHANGED activity
           ELSE /\ activity' = LogAccountActivity(m.accountID, "logout")
                /\ reqs' = ServedBehind("logout", header, None, env, m,
                               <<"LogAccountActivity">>,
                               <<JSON(200, [message |-> "logout successful"])>>)

\* The organization routes, by the last segment of their path.
OrganizationRoutes == {"upsert", "get", "delete", "check-authorization"}

\* An organization route behind the middleware: what its handler writes is
\* kept in orgCall.
OrganizationRoute(route, header, req, graph) ==
    LET m == AuthMiddlewareOn(header)
    IN  /\ reqs' = ServedBehind(route, header, req, "ok", m, <<>>, <<>>)
        /\ IF ~m.next
           THEN UNCHANGED <<tokenVars, hashVars, cryptoVars, orgVars,
                            accountVars, earlier, emails>>
           ELSE IF route = "upsert"
           THEN UpsertOrganizationCall(m.accountID, req, graph)
           ELSE IF route = "get" THEN GetOrganizationCall(m.accountID)
           ELSE IF route = "delete" THEN DeleteOrganizationCall(m.accountID)
           ELSE CheckAuthorizationCall(m.accountID, graph)

\* The tokens made elsewhere: signed with HS256 under the configured secret
\* with the reset subject of account 1 as the subject; and with the number 1
\* as the subject, signed with HS256 under another secret, with HS384 under
\* the configured secret, unsigned, altered and malformed.
Foreign ==
    {MakeToken(made) : made \in
        {t \in PresentedTokens :
            /\ t.sub \in 0..1
            /\ t.sub = 1 => (t.kind = "signed" /\ t.alg = "HS256"
                               /\ t.secret = "secret-1")
            /\ t.secret = "secret-2" => (t.kind = "signed" /\ t.alg = "HS256")
            /\ (t.kind = "signed" /\ t.alg = "HS256" /\ t.sub = 0)
                  => t.secret = "secret-2"
            /\ t.kind # "signed" => t.alg = "HS256"}}

\* The session tokens the service has issued: to either account now, and to
\* account 1 one token lifetime ago.
Issued ==
    {GenerateAuthToken(id, 0, 0, "secret-1").out : id \in DOMAIN Registered}
        \cup {GenerateAuthToken(1, 0 - DayTicks, 0 - DayTicks, "secret-1").out}

\* The headers a request may carry.
Headers == {EmptyToken} \cup Issued \cup Foreign

\* The organization a request asks to have stored.
AnOrgRequest == CHOOSE req \in OrgRequests : req.ClientSecret # <<>>

InitProtected ==
    /\ hp = None
    /\ cp = None
    /\ now = 0
    /\ jwtSecret = "secret-1"
    /\ tok = None
    /\ tv = None
    /\ enc = [i \in Instances |-> <<>>]
    /\ stored = None
    /\ dec = None
    /\ orgKey = KeyOf(16, 1)
    /\ orgs = <<>>
    /\ orgCall = None
    /\ accounts = Registered
    /\ activity = <<>>
    /\ earlier = <<HashedPassword, HashedPassword>>
    /\ emails = <<"a@x.io", "b@x.io">>
    /\ reqs = <<>>

NextProtected ==
    \/ \E header \in Headers : GetProfileRoute(header, "ok")
    \/ \E header \in Headers : LogoutAccountRoute(header, "ok")
    \/ \E header \in Headers :
          ChangePasswordRoute(header, <<98>>, HashedPassword, "ok")
    \/ \E route \in OrganizationRoutes,
          header \in Headers \ {GenerateAuthToken(2, 0, 0, "secret-1").out} :
          OrganizationRoute(route, header, AnOrgRequest,
                            [ok |-> TRUE, err |-> Nil])

SpecProtected == InitProtected /\ [][NextProtected]_vars

\* The handler of the request served last sits behind the middleware.
Behind == reqs # <<>>

\* The header of the request served last is a token the validator accepts:
\* of three parts, signed by an HMAC method under the configured secret, not
\* expired, its subject a number.
GoodHeader ==
    LET token == reqs[1].header
    IN  /\ token.parts = 3
        /\ token.alg \in HMACAlgs
        /\ token.sig = HMAC(token.alg, jwtSecret, token.claims)
        /\ now < token.claims.exp * TicksPerSecond
        /\ token.claims.sub.json = "number"

\* C25: a handler behind AuthMiddleware is entered only for a request whose
\* Authorization header is not empty and is accepted by ValidateAuthToken,
\* and the account ID it reads is the subject of that token; every other
\* request is answered 401 "Unauthorized" and nothing else, and its handler
\* is not entered.
HandlersBehindMiddleware ==
    Behind =>
        LET r == reqs[1]
        IN  /\ r.ran <=> (/\ r.header # EmptyToken
                          /\ ValidateAuthToken(r.header, jwtSecret, now).err = Nil)
            /\ r.ran <=> GoodHeader
            /\ r.ran => r.accountID = DigitsToNat(r.header.claims.sub.val, 0)
            /\ (r.ran /\ r.route \in OrganizationRoutes)
                  => (orgCall.op = (IF r.route = "check-authorization"
                                    THEN "check" ELSE r.route)
                      /\ orgCall.accountID = r.accountID)
            /\ ~r.ran => (r.written = <<Unauthorized>> /\ r.accountID = 0)

\* The handler of DeleteOrganization was entered for a token of account 1
\* signed with HS384, after a logout of account 2.
HandlersBehindMiddlewareWitness ==
    /\ Behind
    /\ reqs[1].ran
    /\ reqs[1].route = "delete"
    /\ reqs[1].header.alg = "HS384"
    /\ reqs[1].accountID = 1
    /\ orgCall.accountID = 1
    /\ orgCall.status = 200
    /\ activity # <<>>
    /\ activity[1].accountID = 2

(***************************************************************************)
(* RegisterAccount served concurrently.  Two requests are in flight at a   *)
(* time, each in a goroutine of its own; a step is what a handler does up  *)
(* to and with its next statement on the database, which the database      *)
(* runs atomically: the lookup by email, the insert of the account, the    *)
(* insert of the activity row.  reqs[i] is the request in slot i: at is    *)
(* where its handler stands, id the ID of the account it has created.      *)
(***************************************************************************)
Slots == {1, 2}

\* A request arrives in a free slot and its body is bound.
Arrive(i, email, password) ==
    /\ Len(reqs) >= i - 1
    /\ IF Len(reqs) < i THEN TRUE ELSE reqs[i].at = "done"
    /\ reqs' = [k \in 1..(IF Len(reqs) < i THEN i ELSE Len(reqs)) |->
                  IF k = i
                  THEN [route |-> "register",
                        body |-> [email |-> email, password |-> password],
                        at |-> "GetAccountByEmail", id |-> 0, written |-> <<>>]
                  ELSE reqs[k]]
    /\ UNCHANGED <<tokenVars, hashVars, cryptoVars, orgVars, accountVars,
                   earlier, emails>>

\* handler.go 80-92: the existence check.
RegisterChecks(i) ==
    /\ i \in DOMAIN reqs
    /\ reqs[i].at = "GetAccountByEmail"
    /\ LET existingAcc == GetAccountByEmail(reqs[i].body.email, "ok")
       IN  reqs' = [reqs EXCEPT ![i] =
                      IF existingAcc.err = Nil
                      THEN [@ EXCEPT !.at = "done", !.written =
                              <<JSON(400, [error |-> "account already exists"])>>]
                      ELSE [@ EXCEPT !.at = "CreateAccount"]]
    /\ UNCHANGED <<tokenVars, hashVars, cryptoVars, orgVars, accountVars,
                   earlier, emails>>

\* handler.go 94-112: the password hashed and the account created.
RegisterCreates(i) ==
    /\ i \in DOMAIN reqs
    /\ reqs[i].at = "CreateAccount"
    /\ LET hashedPassword == HashedOf(reqs[i].body.password)
           acc == CreateAccount(reqs[i].body.email, "ok")
       IN  IF hashedPassword.err # Nil
           THEN /\ reqs' = [reqs EXCEPT ![i] =
                              [@ EXCEPT !.at = "done",
                                        !.written = <<InternalServerError>>]]
                /\ UNCHANGED <<accounts, earlier, emails>>
           ELSE IF acc.err # Nil
           THEN /\ reqs' = [reqs EXCEPT ![i] =
                              [@ EXCEPT !.at = "done", !.written =
                                 <<JSON(500, [error |-> acc.err])>>]]
                /\ UNCHANGED <<accounts, earlier, emails>>
           ELSE /\ emails' = Append(emails, reqs[i].body.email)
                /\ Store(acc.id, reqs[i].body.password)
                /\ reqs' = [reqs EXCEPT ![i] =
                              [@ EXCEPT !.at = "GenerateAuthToken",
                                        !.id = acc.id]]
    /\ UNCHANGED <<tokenVars, hashVars, cryptoVars, orgVars, activity>>

\* handler.go 114-130: the token, the activity row and the response.
RegisterResponds(i) ==
    /\ i \in DOMAIN reqs
    /\ reqs[i].at = "GenerateAuthToken"
    /\ LET token == GenerateAuthToken(reqs[i].id, now, now, jwtSecret)
       IN  IF token.err # Nil
           THEN /\ reqs' = [reqs EXCEPT ![i] =
                              [@ EXCEPT !.at = "done", !.written =
                                 <<JSON(500, [error |-> token.err])>>]]
                /\ UNCHANGED activity
           ELSE /\ activity' = LogAccountActivity(reqs[i].id, "register")
                /\ reqs' = [reqs EXCEPT ![i] =
                              [@ EXCEPT !.at = "done", !.written =
                                 <<JSON(200, [id |-> reqs[i].id,
                                              email |-> reqs[i].body.email,
                                              token |-> token.out])>>]]
    /\ UNCHANGED <<tokenVars, hashVars, cryptoVars, orgVars, accounts,
                   earlier, emails>>

NextRace ==
    \/ \E i \in Slots, email \in Emails, password \in NewPasswords :
          Arrive(i, email, password)
    \/ \E i \in Slots : RegisterChecks(i)
    \/ \E i \in Slots : RegisterCreates(i)
    \/ \E i \in Slots : RegisterResponds(i)

SpecRace == InitRoutes /\ [][NextRace]_vars

\* C30: under any interleaving of concurrent RegisterAccount requests at
\* most one account exists for an email; of two requests in flight for one
\* email at most one has created an account, and a token is sent only to a
\* request that has created the account, for that account.
OneAccountPerEmail ==
    /\ \A a, b \in DOMAIN emails : emails[a] = emails[b] => a = b
    /\ \A i, j \in DOMAIN reqs :
          (i # j /\ reqs[i].body.email = reqs[j].body.email)
             => ~(reqs[i].id # 0 /\ reqs[j].id # 0)
    /\ \A i \in DOMAIN reqs :
          TokenSent(reqs[i])
             => /\ reqs[i].id # 0
                /\ emails[reqs[i].id] = reqs[i].body.email
                /\ reqs[i].written[1].body.token
                      = GenerateAuthToken(reqs[i].id, now, now, jwtSecret).out

\* Two requests for one new email have both passed the existence check; the
\* one was sent a token and the other the error of the unique constraint.
OneAccountPerEmailWitness ==
    /\ Len(reqs) = 2
    /\ reqs[1].body.email = reqs[2].body.email
    /\ Len(emails) = 1
    /\ TokenSent(reqs[2])
    /\ reqs[1].written = <<JSON(500, [error |-> ErrDuplicatedKey])>>

====
